---- MODULE Spec2Model ----
(***************************************************************************)
(* Model of the slope-aware cutting-stock nesting of src/api/main.py       *)
(* (generate_nesting): per-element slope classification, then the main     *)
(* nesting loop of one profile group (oversize rejection, stock selection, *)
(* complementary pairing, ordering, greedy fill, validation, waste).       *)
(*                                                                         *)
(* Units: lengths are integers in hundredths of a millimetre (0.01 mm),    *)
(* angles are whole degrees, confidences are hundredths (0..100).          *)
(***************************************************************************)
EXTENDS Integers, Sequences, FiniteSets, TLC

(* ------------------------------------------------------------------ *)
(* Bounds of the model                                                  *)
(* ------------------------------------------------------------------ *)

\* Largest number of elements of an enumerated small profile group.
MaxPieces == 3

(* ------------------------------------------------------------------ *)
(* Program constants (hundredths of a millimetre, degrees, hundredths)  *)
(* ------------------------------------------------------------------ *)

\* Python None of start_angle / end_angle (angles of the extractor are in 0..90).
None == -1

\* start_deviation_value before its first assignment (an unbound local).
Unbound == -2

\* kerf_mm = 3.0
KERF == 300

\* A tolerance of two kerfs (C1 must tell the two apart).
LooseTolerance == 2 * KERF

\* tolerance_mm = 0.1
tolerance_mm == 10

\* min(len(parts) * 3, 500)
ITERATION_CAP == 500

\* confidence > 0.3 makes a deviating cut a slope
SLOPE_CONFIDENCE == 30

\* low-confidence pairing: 0.2 < confidence <= 0.5
LOW_CONF_MIN == 20

LOW_CONF_MAX == 50

\* short-part rule: length_mm < 500
SHORT_PART_LENGTH == 50000

\* short-part rule: deviation > 15.0
SHORT_PART_DEVIATION == 15

\* pairing: angle_diff < 5.0
ANGLE_MATCH_TOL == 5

\* deviation > 1.0, abs(angle) > 1.0
MIN_SLOPE_ANGLE == 1

\* flush: angle_diff <= 2.0
FLUSH_TOL == 2

\* low-confidence pairing: deviation > 5.0
LOW_CONF_DEVIATION == 5

\* _get_estimated_profile_depth("IPE200") = 200.0 mm
estimated_profile_depth == 20000

(* ------------------------------------------------------------------ *)
(* Arithmetic helpers                                                   *)
(* ------------------------------------------------------------------ *)

Abs(x) == IF x < 0 THEN -x ELSE x

Min2(a, b) == IF a <= b THEN a ELSE b

\* math.tan(angle in degrees) * 1000, rounded, for the angles the inputs use.
TanMilli(angle) ==
    CASE angle = 0 -> 0
      [] angle = 2 -> 35
      [] angle = 3 -> 52
      [] angle = 20 -> 364
      [] angle = 30 -> 577
      [] angle = 45 -> 1000
      [] angle = 47 -> 1072
      [] angle = 48 -> 1111
      [] angle = 80 -> 5671
      [] OTHER -> 1000

\* Generic convention detection: 60..120 is the absolute convention (90 = straight).
Deviation(angle) ==
    IF 60 <= Abs(angle) /\ Abs(angle) <= 120 THEN Abs(angle - 90) ELSE Abs(angle)

(* ------------------------------------------------------------------ *)
(* Inputs                                                               *)
(* ------------------------------------------------------------------ *)

\* cut_piece.end_cuts[...] is None
NoCut == [present |-> FALSE, angle |-> None, confidence |-> 0]

\* An EndCut of the extractor: angle_deg in 0..90, confidence in 0..1.
Cut(a, c) == [present |-> TRUE, angle |-> a, confidence |-> c]

\* One IfcBeam/IfcColumn/IfcMember of the selected profile, as extracted.
Elem(len, s, e) == [length |-> len, start |-> s, end |-> e]

\* The kinds of element the enumerated profile groups are built from.
ElementTypes ==
    << Elem(200000, Cut(0, 100), NoCut),         \* 2000.0 square
       Elem(300000, NoCut, NoCut),               \* 3000.0 square, no cut data
       Elem(300000, NoCut, Cut(45, 90)),         \* 3000.0, end mitred 45
       Elem(320010, Cut(45, 40), Cut(30, 10)),   \* 3200.1, start mitred 45, doubtful end
       Elem(400010, NoCut, NoCut),               \* 4000.1 square
       Elem(700000, NoCut, NoCut),               \* 7000.0 square
       Elem(40000, Cut(20, 25), Cut(30, 10)),    \* 400.0, two doubtful cuts
       Elem(20000, Cut(45, 25), Cut(45, 90)),    \* 200.0, doubtful start, mitred end
       Elem(40000, NoCut, Cut(30, 10)) >>        \* 400.0, one doubtful cut

\* The stock-length lists of the request, in the caller's order.
StockChoices == { <<600000>>, <<600000, 1200000>>, <<1200000, 600000>> }

RECURSIVE SeqsUpTo(_, _)
\* All sequences over S of length 1..n.
SeqsUpTo(S, n) ==
    IF n = 0 THEN {}
    ELSE LET shorter == SeqsUpTo(S, n - 1)
         IN  { <<x>> : x \in S } \cup shorter
             \cup { Append(q, x) : q \in { r \in shorter : Len(r) = n - 1 }, x \in S }

\* A profile group one larger than the iteration cap, every piece a full bar.
BigPool == [i \in 1..(ITERATION_CAP + 1) |-> Elem(600000, NoCut, NoCut)]

\* A profile group of two complementary pairs: the first pair takes 5780.1 mm,
\* the second 220.0 mm, 0.1 mm more than a 6000 mm bar has left.
TwoPairs ==
    << Elem(300000, NoCut, Cut(45, 90)), Elem(298010, NoCut, Cut(45, 90)),
       Elem(20000, Cut(45, 25), Cut(45, 90)), Elem(20000, Cut(45, 25), Cut(45, 90)) >>

\* A profile group whose 3200.1 mm pieces are turned in a bar they do not fit
\* and meet again in a later one.
TurnedThenPaired ==
    << Elem(320010, Cut(45, 40), Cut(30, 10)), Elem(320010, Cut(45, 40), Cut(30, 10)),
       Elem(400010, NoCut, NoCut), Elem(700000, NoCut, NoCut) >>

\* A profile group whose pair shares 0.09 mm: 3000.04 mm with a mitred end, a
\* sliver of 0.1 mm with a mitred start, and 3000.0 mm square. All three go
\* into a 6000 mm bar (6000.05 mm consumed) though they add up to 6000.14 mm.
ThinSliver ==
    << Elem(300004, NoCut, Cut(45, 90)), Elem(10, Cut(45, 90), NoCut),
       Elem(300000, NoCut, NoCut) >>

\* A profile group whose lengths add up to the stock length exactly: 3000.0 mm
\* mitred at 30 degrees on both ends and 3000.0 mm square.
ExactFit ==
    << Elem(300000, Cut(30, 90), Cut(30, 90)), Elem(300000, NoCut, NoCut) >>

Scenarios ==
    { [elements |-> es, stock |-> st] :
        es \in SeqsUpTo({ ElementTypes[k] : k \in 1..Len(ElementTypes) }, MaxPieces),
        st \in StockChoices }
    \cup { [elements |-> es, stock |-> st] :
               es \in {TwoPairs, TurnedThenPaired, ThinSliver, ExactFit}, st \in StockChoices }
    \cup { [elements |-> BigPool, stock |-> <<600000>>] }

(* ------------------------------------------------------------------ *)
(* Sequence helpers                                                     *)
(* ------------------------------------------------------------------ *)

Range(s) == { s[i] : i \in 1..Len(s) }

\* x in list
InSeq(x, s) == \E i \in 1..Len(s) : s[i] = x

\* s[:n]
Take(s, n) == SubSeq(s, 1, Min2(n, Len(s)))

\* list.remove(x): the first occurrence
RemoveFirst(s, x) ==
    IF ~InSeq(x, s) THEN s
    ELSE LET i == CHOOSE k \in 1..Len(s) : s[k] = x /\ \A m \in 1..(k - 1) : s[m] # x
         IN  SubSeq(s, 1, i - 1) \o SubSeq(s, i + 1, Len(s))

RECURSIVE SumRange(_, _, _)
\* s[lo] + ... + s[hi], by halves
SumRange(s, lo, hi) ==
    IF lo > hi THEN 0
    ELSE IF lo = hi THEN s[lo]
    ELSE LET mid == (lo + hi) \div 2
         IN  SumRange(s, lo, mid) + SumRange(s, mid + 1, hi)

\* sum(s)
SumSeq(s) == SumRange(s, 1, Len(s))

MaxOf(S) == CHOOSE x \in S : \A y \in S : y <= x

MinOf(S) == CHOOSE x \in S : \A y \in S : x <= y

RECURSIVE InsertAsc(_, _)
InsertAsc(x, s) ==
    IF s = <<>> THEN <<x>>
    ELSE IF x < Head(s) THEN <<x>> \o s ELSE <<Head(s)>> \o InsertAsc(x, Tail(s))

\* The list as the caller gave it (C12 must tell the two apart).
Unsorted(s) == s

RECURSIVE SortAsc(_)
\* sorted(list of numbers)
SortAsc(s) == IF s = <<>> THEN <<>> ELSE InsertAsc(Head(s), SortAsc(Tail(s)))

\* sorted(list of numbers, reverse=True)
SortDescNum(s) == LET a == SortAsc(s) IN [i \in 1..Len(a) |-> a[Len(a) + 1 - i]]

(* ------------------------------------------------------------------ *)
(* State                                                                *)
(* ------------------------------------------------------------------ *)

VARIABLES
    elements,               \* the elements of the selected profile, in file order
    stock_input,            \* the request's stock lengths, in the caller's order
    stock_lengths_list,     \* sorted(stock lengths)
    pc,                     \* position in generate_nesting
    ei,                     \* index of the next element to classify
    start_deviation_value,  \* local that survives from one element to the next
    parts,                  \* part_data by product_id (mutated by flips)
    remaining_parts,        \* the pool, product ids in order
    max_iterations,
    iteration_count,
    cutting_patterns,
    rejected_parts,
    best_stock,
    valid_parts_for_this_stock,
    pattern_parts,
    current_length,
    total_parts_length,
    cut_position,
    parts_to_remove,
    pi,                     \* index i of the pairing loop
    pj,                     \* index j of the pairing loop (0: at the head of the outer loop)
    remaining_parts_sorted,
    fk,                     \* index of the fill loop
    report                  \* the profile's entry of the nesting report

\* State of one call of CutPieceExtractor.extract_cut_piece (cut_piece_extractor.py).
VARIABLES
    element,                \* the IFC element handed to extract_cut_piece
    xpc,                    \* position in extract_cut_piece
    paths_run,              \* the extraction paths called so far and what each gave
    cut_piece,              \* local cut_piece; at "returned" the value handed back
    start_vertices,         \* len(start_vertices) when the end cuts were fitted
    end_vertices,           \* len(end_vertices) when the end cuts were fitted
    selection,              \* how often the vertex selection ran, and whether its
                            \* first run captured 3 vertices at the start / the end
    avg_residual,           \* avg_residual of the fit of each end (NoFit: no fit ran)
    ifc_file,               \* what the constructor is given: the file's beams and columns
    unit_scale              \* self.unit_scale, in thousandths (Unset: not constructed)

extractorVars == << element, xpc, paths_run, cut_piece, start_vertices, end_vertices,
                    selection, avg_residual, ifc_file, unit_scale >>

\* The extractor has run before generate_nesting reads its pieces: to the
\* nesting its state is part of the input.
inputVars == << elements, stock_input, stock_lengths_list, extractorVars >>

extractVars == << ei, start_deviation_value >>

poolVars == << parts, remaining_parts, max_iterations, iteration_count,
               cutting_patterns, rejected_parts >>

barVars == << best_stock, valid_parts_for_this_stock, pattern_parts, current_length,
              total_parts_length, cut_position, parts_to_remove, pi, pj,
              remaining_parts_sorted, fk >>

vars == << inputVars, extractVars, poolVars, barVars, pc, report >>

NoReport == [produced |-> FALSE, total_parts |-> 0, total_waste |-> 0]

\* No avg_residual: _fit_end_plane did not get as far as the residuals.
NoFit == -1

\* The vertex selection has not run.
NoSelection == [runs |-> 0, start_enough |-> FALSE, end_enough |-> FALSE]

\* The extractor was constructed without a file: unit_scale or 1.0.
ConstructedWithoutFile ==
    /\ ifc_file = [file |-> "none", given |-> 0, beams |-> <<>>, columns |-> <<>>]
    /\ unit_scale = 1000

\* No call of extract_cut_piece is in progress.
ExtractorIdle ==
    /\ ConstructedWithoutFile
    /\ element = [is_a |-> "none"]
    /\ xpc = "idle"
    /\ paths_run = <<>>
    /\ cut_piece = [returned |-> "None"]
    /\ start_vertices = 0
    /\ end_vertices = 0
    /\ selection = NoSelection
    /\ avg_residual = [start |-> NoFit, end |-> NoFit]

Init ==
    \E sc \in Scenarios :
        /\ ExtractorIdle
        /\ elements = sc.elements
        /\ stock_input = sc.stock
        /\ stock_lengths_list = SortAsc(sc.stock)
        /\ pc = "extract"
        /\ ei = 1
        /\ start_deviation_value = Unbound
        /\ parts = <<>>
        /\ remaining_parts = <<>>
        /\ max_iterations = 0
        /\ iteration_count = 0
        /\ cutting_patterns = <<>>
        /\ rejected_parts = <<>>
        /\ best_stock = 0
        /\ valid_parts_for_this_stock = <<>>
        /\ pattern_parts = <<>>
        /\ current_length = 0
        /\ total_parts_length = 0
        /\ cut_position = 0
        /\ parts_to_remove = <<>>
        /\ pi = 0
        /\ pj = 0
        /\ remaining_parts_sorted = <<>>
        /\ fk = 0
        /\ report = NoReport

(* ------------------------------------------------------------------ *)
(* Per-element slope classification (the IfcProduct loop)               *)
(* ------------------------------------------------------------------ *)

\* deviation_from_straight > 1.0 and confidence > 0.3
HasSlope(cut) ==
    cut.present /\ Deviation(cut.angle) > MIN_SLOPE_ANGLE /\ cut.confidence > SLOPE_CONFIDENCE

\* start_deviation_value after the element's start cut was looked at.
StartDeviationAfter(e, sdv) == IF e.start.present THEN Deviation(e.start.angle) ELSE sdv

\* The short-part rule fires: neither end a slope, both confidences below 0.5,
\* length below 500 mm, both deviations above 15 (an unbound
\* start_deviation_value raises, and the except clause leaves the flags alone).
ShortPartRule(e, sdv) ==
    /\ e.end.present
    /\ ~HasSlope(e.start) /\ ~HasSlope(e.end)
    /\ e.start.confidence < LOW_CONF_MAX /\ e.end.confidence < LOW_CONF_MAX
    /\ e.length < SHORT_PART_LENGTH
    /\ StartDeviationAfter(e, sdv) # Unbound
    /\ StartDeviationAfter(e, sdv) > SHORT_PART_DEVIATION
    /\ Deviation(e.end.angle) > SHORT_PART_DEVIATION

\* part_data of element e with product id `id`, given the start_deviation_value
\* left by the elements before it.
ClassifyPart(e, id, sdv) ==
    LET use_start == ShortPartRule(e, sdv)
                     /\ StartDeviationAfter(e, sdv) > Deviation(e.end.angle)
        use_end   == ShortPartRule(e, sdv)
                     /\ ~(StartDeviationAfter(e, sdv) > Deviation(e.end.angle))
    IN  [ product_id       |-> id,
          length           |-> e.length,
          start_angle      |-> e.start.angle,
          end_angle        |-> e.end.angle,
          start_has_slope  |-> HasSlope(e.start) \/ use_start,
          end_has_slope    |-> HasSlope(e.end) \/ use_end,
          start_confidence |-> e.start.confidence,
          end_confidence   |-> e.end.confidence,
          flipped          |-> FALSE,
          chain_pair       |-> FALSE ]

ClassifyElement ==
    /\ pc = "extract"
    /\ ei <= Len(elements)
    /\ parts' = Append(parts, ClassifyPart(elements[ei], ei, start_deviation_value))
    /\ start_deviation_value' = StartDeviationAfter(elements[ei], start_deviation_value)
    /\ ei' = ei + 1
    /\ UNCHANGED << inputVars, remaining_parts, max_iterations, iteration_count,
                    cutting_patterns, rejected_parts, barVars, pc, report >>

\* A cap of four iterations a piece, unbounded (C5 must tell the two apart).
FourPerPiece(n) == n * 4

\* remaining_parts = parts.copy(); max_iterations = min(len(parts) * 3, 500)
MaxIterationsFor(n) == Min2(n * 3, ITERATION_CAP)

StartNesting ==
    /\ pc = "extract"
    /\ ei > Len(elements)
    /\ remaining_parts' = [i \in 1..Len(parts) |-> i]
    /\ max_iterations' = MaxIterationsFor(Len(parts))
    /\ iteration_count' = 0
    /\ cutting_patterns' = <<>>
    /\ rejected_parts' = <<>>
    /\ pc' = "loop"
    /\ UNCHANGED << inputVars, extractVars, parts, barVars, report >>

(* ------------------------------------------------------------------ *)
(* The main loop: oversize rejection and stock selection                *)
(* ------------------------------------------------------------------ *)

LengthOf(id) == parts[id].length

\* [p["length"] for p in ids]
Lengths(ids) == [i \in 1..Len(ids) |-> LengthOf(ids[i])]

\* f"{x:.0f}" of a length: whole millimetres, ties to the even neighbour.
Format0(x) ==
    LET q == x \div 100
        r == x % 100
    IN  IF r < 50 THEN q
        ELSE IF r > 50 THEN q + 1
        ELSE IF q % 2 = 0 THEN q ELSE q + 1

\* f"{x:.1f}" of a length: tenths of a millimetre, the nearest one (a value
\* half way between two tenths goes to the even one).
Format1(x) ==
    LET q == x \div 10
        r == x % 10
    IN  IF r < 5 THEN q
        ELSE IF r > 5 THEN q + 1
        ELSE IF q % 2 = 0 THEN q ELSE q + 1

\* One entry of rejected_parts.
Rejected(id, len, stock, kind, shown) ==
    [ product_id   |-> id,
      length       |-> len,
      stock_length |-> stock,
      reason       |-> [kind |-> kind, length_text |-> Format1(shown),
                        stock_text |-> Format0(stock)] ]

\* The oversize check at the head of an iteration: the entries appended to
\* rejected_parts for the pool `rem`.
OversizeRejections(rem) ==
    LET longest_stock == MaxOf(Range(stock_lengths_list))
        oversized_parts == SelectSeq(rem, LAMBDA id : LengthOf(id) > longest_stock)
    IN  [i \in 1..Len(oversized_parts) |->
            Rejected(oversized_parts[i], LengthOf(oversized_parts[i]), longest_stock,
                     "exceeds_longest_stock", LengthOf(oversized_parts[i]))]

\* [p for p in rem if p["length"] <= stock]
FitStock(rem, stock) == SelectSeq(rem, LAMBDA id : LengthOf(id) <= stock)

\* The pool had the oversize check removed nothing (C3 must tell the two apart).
KeepAll(rem) == rem

\* The pool after the oversize check.
WithoutOversize(rem) == FitStock(rem, MaxOf(Range(stock_lengths_list)))

\* candidate_stocks: the stock lengths, longest first, in which all of `rem`
\* fit together (total length and every single part).
CandidateStocks(rem) ==
    LET total_length_all_remaining == SumSeq(Lengths(rem))
    IN  SelectSeq(SortDescNum(stock_lengths_list),
                  LAMBDA stock_len :
                      /\ total_length_all_remaining <= stock_len
                      /\ \A i \in 1..Len(rem) : LengthOf(rem[i]) <= stock_len)

\* The longest stock length whatever the pool (C8 must tell the two apart).
SelectLongest(rem) == MaxOf(Range(stock_lengths_list))

\* best_stock of an iteration for the pool `rem` (None: no stock was found).
SelectBestStock(rem) ==
    LET total_length_all_remaining == SumSeq(Lengths(rem))
        largest_part_length == MaxOf(Range(Lengths(rem)))
        candidate_stocks == CandidateStocks(rem)
        candidate_for_largest ==
            SelectSeq(SortDescNum(stock_lengths_list),
                      LAMBDA stock_len : largest_part_length <= stock_len)
    IN  IF candidate_stocks # <<>>
        THEN IF Len(candidate_stocks) > 1
             THEN IF total_length_all_remaining <= candidate_stocks[Len(candidate_stocks)]
                  THEN candidate_stocks[Len(candidate_stocks)]
                  ELSE candidate_stocks[1]
             ELSE candidate_stocks[1]
        ELSE IF candidate_for_largest # <<>> THEN candidate_for_largest[1] ELSE None

RECURSIVE InsertByLengthDesc(_, _)
\* Insertion that keeps equal lengths in their order of arrival.
InsertByLengthDesc(id, s) ==
    IF s = <<>> THEN <<id>>
    ELSE IF LengthOf(id) >= LengthOf(Head(s))
         THEN <<id>> \o s
         ELSE <<Head(s)>> \o InsertByLengthDesc(id, Tail(s))

RECURSIVE InsertionSortDesc(_)
InsertionSortDesc(s) ==
    IF s = <<>> THEN <<>> ELSE InsertByLengthDesc(Head(s), InsertionSortDesc(Tail(s)))

\* list.sort(key=lambda p: p["length"], reverse=True): stable, longest first.
SortByLengthDesc(s) ==
    IF \A i \in 1..(Len(s) - 1) : LengthOf(s[i]) >= LengthOf(s[i + 1])
    THEN s
    ELSE InsertionSortDesc(s)

(* ------------------------------------------------------------------ *)
(* Pre-step: complementary chains (the complementary_pair mark)         *)
(* ------------------------------------------------------------------ *)

\* slopes_match(angle1, angle2)
slopes_match(angle1, angle2) ==
    /\ angle1 # None /\ angle2 # None
    /\ Abs(Abs(angle1) - Abs(angle2)) < ANGLE_MATCH_TOL
    /\ Abs(angle1) > MIN_SLOPE_ANGLE

\* A graph that connects every two parts (C14 must tell the two apart).
ConnectsAll(part_i, part_j) == 1

\* The number of connections the graph holds between part_i and part_j
\* (part_i is the earlier of the two in valid_parts_for_this_stock).
Connections(part_i, part_j) ==
    (IF part_i.start_has_slope /\ part_j.start_has_slope
        /\ slopes_match(part_i.start_angle, part_j.start_angle) THEN 1 ELSE 0)
  + (IF part_i.start_has_slope /\ part_j.end_has_slope
        /\ slopes_match(part_i.start_angle, part_j.end_angle) THEN 1 ELSE 0)
  + (IF part_i.end_has_slope /\ part_j.start_has_slope
        /\ slopes_match(part_i.end_angle, part_j.start_angle) THEN 1 ELSE 0)
  + (IF part_i.end_has_slope /\ part_j.end_has_slope
        /\ slopes_match(part_i.end_angle, part_j.end_angle) THEN 1 ELSE 0)

\* Connections between the parts at positions a and b of `sloped`.
ConnectionsAt(sloped, a, b) ==
    IF a = b THEN 0
    ELSE IF a < b THEN Connections(parts[sloped[a]], parts[sloped[b]])
    ELSE Connections(parts[sloped[b]], parts[sloped[a]])

\* len(part_connections[a])
RECURSIVE ConnectionTotal(_, _, _)
ConnectionTotal(sloped, a, b) ==
    IF b > Len(sloped) THEN 0
    ELSE ConnectionsAt(sloped, a, b) + ConnectionTotal(sloped, a, b + 1)

RECURSIVE InsertByConnections(_, _, _)
InsertByConnections(sloped, a, s) ==
    IF s = <<>> THEN <<a>>
    ELSE IF ConnectionTotal(sloped, a, 1) <= ConnectionTotal(sloped, Head(s), 1)
         THEN <<a>> \o s
         ELSE <<Head(s)>> \o InsertByConnections(sloped, a, Tail(s))

RECURSIVE StartCandidates(_, _)
\* sorted(range(n), key=lambda x: len(part_connections[x])), from position a on.
StartCandidates(sloped, a) ==
    IF a > Len(sloped) THEN <<>>
    ELSE InsertByConnections(sloped, a, StartCandidates(sloped, a + 1))

RECURSIVE ExtendChain(_, _, _)
\* The 'while True' loop: the positions used once the chain ending at
\* current_idx can grow no further.
ExtendChain(sloped, current_idx, used_in_chains) ==
    LET next_candidates == { b \in 1..Len(sloped) :
                               /\ ConnectionsAt(sloped, current_idx, b) > 0
                               /\ b \notin used_in_chains }
    IN  IF next_candidates = {} THEN used_in_chains
        ELSE ExtendChain(sloped, MinOf(next_candidates),
                         used_in_chains \cup {MinOf(next_candidates)})

RECURSIVE ChainPositions(_, _, _, _)
\* The loop over start_candidates: the positions that end in a chain of two
\* parts or more.
ChainPositions(sloped, start_candidates, used_in_chains, complementary_chain_parts) ==
    IF start_candidates = <<>> THEN complementary_chain_parts
    ELSE LET start_idx == Head(start_candidates)
             after == ExtendChain(sloped, start_idx, used_in_chains \cup {start_idx})
             chain == after \ used_in_chains
         IN  IF start_idx \in used_in_chains \/ ConnectionTotal(sloped, start_idx, 1) = 0
             THEN ChainPositions(sloped, Tail(start_candidates), used_in_chains,
                                 complementary_chain_parts)
             ELSE ChainPositions(sloped, Tail(start_candidates), after,
                                 IF Cardinality(chain) >= 2
                                 THEN complementary_chain_parts \cup chain
                                 ELSE complementary_chain_parts)

\* The parts list after the pre-step marked the chains found among `valid`.
\* Parts without a slope flag have no connection and are left out of the graph.
MarkChains(valid) ==
    LET sloped == SelectSeq(valid, LAMBDA id :
                      parts[id].start_has_slope \/ parts[id].end_has_slope)
        marked == { sloped[a] : a \in ChainPositions(sloped, StartCandidates(sloped, 1),
                                                     {}, {}) }
    IN  IF sloped = <<>> \/ marked = {} THEN parts
        ELSE [id \in 1..Len(parts) |->
                 IF id \in marked THEN [parts[id] EXCEPT !.chain_pair = TRUE]
                 ELSE parts[id]]

\* The 'while remaining_parts and iteration_count < max_iterations' test fails.
LoopExit ==
    /\ pc = "loop"
    /\ ~(remaining_parts # <<>> /\ iteration_count < max_iterations)
    /\ pc' = "report"
    /\ UNCHANGED << inputVars, extractVars, poolVars, barVars, report >>

\* The head of one iteration: oversize rejection, stock selection, the filter
\* of the parts that fit the selected stock, and the bar's initialisation.
BeginIteration ==
    /\ pc = "loop"
    /\ remaining_parts # <<>> /\ iteration_count < max_iterations
    /\ iteration_count' = iteration_count + 1
    /\ \E rem \in {WithoutOversize(remaining_parts)} :
       \E stock \in {IF rem = <<>> THEN None ELSE SelectBestStock(rem)} :
       \E valid \in {IF stock = None THEN <<>> ELSE FitStock(rem, stock)} :
           /\ rejected_parts' = rejected_parts \o OversizeRejections(remaining_parts)
           /\ remaining_parts' = rem
           /\ IF rem = <<>> \/ stock = None \/ valid = <<>>
              THEN \* break
                   /\ pc' = "report"
                   /\ UNCHANGED << barVars, parts >>
              ELSE /\ pc' = "pair"
                   /\ best_stock' = stock
                   /\ valid_parts_for_this_stock' = SortByLengthDesc(valid)
                   /\ pattern_parts' = <<>>
                   /\ current_length' = 0
                   /\ total_parts_length' = 0
                   /\ cut_position' = 0
                   /\ parts_to_remove' = <<>>
                   /\ pi' = 1
                   /\ pj' = 0
                   /\ remaining_parts_sorted' = <<>>
                   /\ fk' = 0
                   /\ parts' = MarkChains(SortByLengthDesc(valid))
    /\ UNCHANGED << inputVars, extractVars, max_iterations, cutting_patterns, report >>

(* ------------------------------------------------------------------ *)
(* Step 1: complementary pairing                                        *)
(* ------------------------------------------------------------------ *)

\* epsilon = 0.01 mm, in hundredths of a millimetre
EPSILON == 1

\* Pairing counting every unflagged cut that deviates, whatever its
\* confidence (C10 must tell the two apart).
AnyConfidenceSlope(angle, has_slope, conf) ==
    angle # None /\ ~has_slope /\ Deviation(angle) > LOW_CONF_DEVIATION

\* A cut not flagged as a slope that pairing still counts as one:
\* deviation > 5 and 0.2 < confidence <= 0.5.
LowConfSlope(angle, has_slope, conf) ==
    /\ angle # None
    /\ ~has_slope
    /\ Deviation(angle) > LOW_CONF_DEVIATION
    /\ LOW_CONF_MIN < conf /\ conf <= LOW_CONF_MAX

\* part_start_slope_any
StartSlopeAny(p) ==
    p.start_has_slope \/ LowConfSlope(p.start_angle, p.start_has_slope, p.start_confidence)

\* part_end_slope_any
EndSlopeAny(p) ==
    p.end_has_slope \/ LowConfSlope(p.end_angle, p.end_has_slope, p.end_confidence)

\* angle_diff < 5.0 and angle1_abs > 1.0
AnglesPair(a1, a2) ==
    /\ a1 # None /\ a2 # None
    /\ Abs(Abs(a1) - Abs(a2)) < ANGLE_MATCH_TOL
    /\ Abs(a1) > MIN_SLOPE_ANGLE

OppositeSigns(a1, a2) == (a1 > 0 /\ a2 < 0) \/ (a1 < 0 /\ a2 > 0)

\* pairing_type of part1 and part2 ("none": not complementary).
PairingType(p1, p2) ==
    IF StartSlopeAny(p1) /\ EndSlopeAny(p2) /\ AnglesPair(p1.start_angle, p2.end_angle)
    THEN "start_end"
    ELSE IF EndSlopeAny(p1) /\ StartSlopeAny(p2) /\ AnglesPair(p1.end_angle, p2.start_angle)
    THEN "end_start"
    ELSE IF EndSlopeAny(p1) /\ EndSlopeAny(p2) /\ AnglesPair(p1.end_angle, p2.end_angle)
    THEN "end_end"
    ELSE IF /\ StartSlopeAny(p1) /\ StartSlopeAny(p2)
            /\ AnglesPair(p1.start_angle, p2.start_angle)
            /\ OppositeSigns(p1.start_angle, p2.start_angle)
    THEN "start_start"
    ELSE "none"

\* angle_for_calculation: part1's angle of the paired ends.
AngleForCalculation(p1, p2) ==
    LET t == PairingType(p1, p2)
    IN  IF t = "end_start" \/ t = "end_end" THEN p1.end_angle ELSE p1.start_angle

\* The shared length without the clamp: depth * tan(angle) (C6 must tell the
\* two apart).
SharedLengthUnclamped(length1, length2, angle) ==
    IF angle # None /\ Abs(angle) > MIN_SLOPE_ANGLE
    THEN (estimated_profile_depth * TanMilli(Abs(angle))) \div 1000
    ELSE 0

\* A shared length of the whole shorter part (C25 must tell the two apart).
SharedWhole(length1, length2, angle) == Min2(length1, length2)

\* shared_linear_slopes_length of a pair: depth * tan(angle), at most 90% of
\* the shorter part (50% when the combined length would be negative).
SharedLength(length1, length2, angle) ==
    IF angle # None /\ Abs(angle) > MIN_SLOPE_ANGLE
    THEN IF Abs(angle) * 3142 > 10 * 180    \* angle_rad > 0.01
         THEN LET raw == (estimated_profile_depth * TanMilli(Abs(angle))) \div 1000
                  max_shared == (Min2(length1, length2) * 9) \div 10
                  capped == IF raw > max_shared THEN max_shared ELSE raw
                  half == Min2(length1, length2) \div 2
              IN  IF length1 + length2 - capped < 0 /\ capped > half THEN half ELSE capped
         ELSE 0
    ELSE 0

\* combined_length
CombinedLength(length1, length2, angle) ==
    length1 + length2 - SharedLength(length1, length2, angle)

\* best_stock_for_pair: the longest stock length the pair fits, or None.
BestStockForPair(combined_length) ==
    LET fitting == SelectSeq(SortDescNum(stock_lengths_list),
                             LAMBDA stock_len :
                                 /\ combined_length <= stock_len + tolerance_mm
                                 /\ ~(combined_length > stock_len))
    IN  IF fitting = <<>> THEN None ELSE fitting[1]

\* The fit check with the 0.1 mm tolerance of the fill loop instead of the
\* exact one (C9 must tell the two apart).
PairFitLoose(combined_length, cur, stock) ==
    IF cur + combined_length <= stock + tolerance_mm THEN "accept" ELSE "continue"

\* The fit checks of a complementary pair against the bar being built:
\* "accept", "continue" (skip this pair), "break" (leave the inner loop) or
\* "rollback" (placed, found too long, removed again).
PairFit(combined_length, cur, stock) ==
    LET best_stock_for_pair == BestStockForPair(combined_length)
        stock_to_use == IF best_stock_for_pair # None /\ cur = 0
                           /\ ~(combined_length <= stock)
                        THEN best_stock_for_pair ELSE stock
        length_after_pair == cur + combined_length
    IN  IF cur > stock + tolerance_mm THEN "break"
        ELSE IF ~(best_stock_for_pair # None
                  /\ combined_length <= best_stock_for_pair + tolerance_mm)
        THEN "continue"
        ELSE IF combined_length > stock_to_use THEN "continue"
        ELSE IF cur # 0 /\ cur + combined_length <= stock + tolerance_mm
                /\ cur + combined_length > stock
        THEN "continue"
        ELSE IF cur # 0 /\ ~(cur + combined_length <= stock + tolerance_mm) THEN "break"
        ELSE IF length_after_pair > stock + tolerance_mm THEN "continue"
        ELSE IF length_after_pair > stock + EPSILON THEN "rollback"
        ELSE IF length_after_pair > stock THEN "rollback"
        ELSE "accept"

\* The outcome of the inner loop's body for valid_parts_for_this_stock[i], [j].
PairOutcome(i, j) ==
    LET part1 == parts[valid_parts_for_this_stock[i]]
        part2 == parts[valid_parts_for_this_stock[j]]
    IN  IF InSeq(part2.product_id, parts_to_remove) THEN "continue"
        ELSE IF PairingType(part1, part2) = "none" THEN "continue"
        ELSE PairFit(CombinedLength(part1.length, part2.length,
                                    AngleForCalculation(part1, part2)),
                     current_length, best_stock)

\* A placement recorded at the position where the part ends.
PlacedAtEnd(p, pos, s_any, e_any, pair_flag, kerf, shared) ==
    [ part         |-> p.product_id,
      cut_position |-> pos + p.length,
      length       |-> p.length,
      slope_info   |-> [ start_angle      |-> p.start_angle,
                         end_angle        |-> p.end_angle,
                         start_has_slope  |-> s_any,
                         end_has_slope    |-> e_any,
                         has_slope        |-> s_any \/ e_any,
                         complementary_pair |-> pair_flag ],
      kerf         |-> kerf,
      shared       |-> shared ]

\* A placement of pattern_parts. kerf and shared record what the placement
\* added to and took from current_length (kerf_mm, shared_linear_slopes_length).
Placement(p, pos, s_any, e_any, pair_flag, kerf, shared) ==
    [ part         |-> p.product_id,
      cut_position |-> pos,
      length       |-> p.length,
      slope_info   |-> [ start_angle      |-> p.start_angle,
                         end_angle        |-> p.end_angle,
                         start_has_slope  |-> s_any,
                         end_has_slope    |-> e_any,
                         has_slope        |-> s_any \/ e_any,
                         complementary_pair |-> pair_flag ],
      kerf         |-> kerf,
      shared       |-> shared ]

\* part1 is skipped by the outer loop: already placed, or no slope of any kind.
PairSkipsPart1(id) ==
    \/ InSeq(id, parts_to_remove)
    \/ ~(StartSlopeAny(parts[id]) \/ EndSlopeAny(parts[id]))

\* The first index from `i` on whose part the outer loop does not skip
\* (Len + 1: none).
NextPart1(i) ==
    LET n == Len(valid_parts_for_this_stock)
        open == { k \in i..n : ~PairSkipsPart1(valid_parts_for_this_stock[k]) }
    IN  IF open = {} THEN n + 1 ELSE MinOf(open)

\* The head of the outer pairing loop: move to the next part1 that has a
\* slope, or leave Step 1.
PairNextPart1 ==
    /\ pc = "pair"
    /\ pj = 0
    /\ LET n == Len(valid_parts_for_this_stock)
           i == NextPart1(pi)
       IN  IF n < 2 \/ current_length > best_stock + tolerance_mm \/ i > n
           THEN /\ pc' = "order"
                /\ UNCHANGED << pi, pj >>
           ELSE /\ pc' = "pair"
                /\ pi' = i
                /\ pj' = i + 1
    /\ UNCHANGED << inputVars, extractVars, poolVars, best_stock,
                    valid_parts_for_this_stock, pattern_parts, current_length,
                    total_parts_length, cut_position, parts_to_remove,
                    remaining_parts_sorted, fk, report >>

\* One pass of the inner pairing loop's body, for part1 = valid[pi], part2 = valid[pj].
PairTry ==
    /\ pc = "pair"
    /\ pj > 0
    /\ IF pj > Len(valid_parts_for_this_stock)
       THEN \* inner loop exhausted
            /\ pi' = pi + 1 /\ pj' = 0
            /\ UNCHANGED << pattern_parts, current_length, total_parts_length,
                            cut_position, parts_to_remove >>
       ELSE LET outcome == PairOutcome(pi, pj)
                part1 == parts[valid_parts_for_this_stock[pi]]
                part2 == parts[valid_parts_for_this_stock[pj]]
                shared == SharedLength(part1.length, part2.length,
                                       AngleForCalculation(part1, part2))
                combined == part1.length + part2.length - shared
                part2_cut_position == cut_position + part1.length - shared
            IN  IF outcome = "accept"
                THEN /\ pattern_parts' = pattern_parts \o
                          << Placement(part1, cut_position, StartSlopeAny(part1),
                                       EndSlopeAny(part1), TRUE, 0, 0),
                             Placement(part2, part2_cut_position, StartSlopeAny(part2),
                                       EndSlopeAny(part2), TRUE, 0, shared) >>
                     /\ cut_position' = part2_cut_position + part2.length
                     /\ current_length' = current_length + combined
                     /\ total_parts_length' = total_parts_length + part1.length + part2.length
                     /\ parts_to_remove' = parts_to_remove \o
                                            << part1.product_id, part2.product_id >>
                     /\ pi' = pi + 1 /\ pj' = 0
                ELSE IF outcome = "rollback"
                THEN /\ cut_position' = current_length
                     /\ pj' = pj + 1 /\ pi' = pi
                     /\ UNCHANGED << pattern_parts, current_length, total_parts_length,
                                     parts_to_remove >>
                ELSE IF outcome = "break"
                THEN /\ pi' = pi + 1 /\ pj' = 0
                     /\ UNCHANGED << pattern_parts, current_length, total_parts_length,
                                     cut_position, parts_to_remove >>
                ELSE /\ pj' = pj + 1 /\ pi' = pi
                     /\ UNCHANGED << pattern_parts, current_length, total_parts_length,
                                     cut_position, parts_to_remove >>
    /\ UNCHANGED << inputVars, extractVars, poolVars, best_stock,
                    valid_parts_for_this_stock, remaining_parts_sorted, fk, pc, report >>

(* ------------------------------------------------------------------ *)
(* Step 2: the order in which the fill loop is offered the parts        *)
(* ------------------------------------------------------------------ *)

\* max_parts_to_try = 10
MAX_PARTS_TO_TRY == 10

\* candidates_to_try = min(5, ...)
CANDIDATES_TO_TRY == 5

\* remaining_parts_sorted[:20]
LOOKAHEAD_PARTS == 20

\* abs(waste - best_waste) < 10
SIMILAR_WASTE == 1000

\* flush_score = -1000
START_SLOPE_PENALTY == 1000

\* can_share of the look-ahead and of the orderings: both ends straight, or
\* both sloped with magnitudes within 2 degrees (no test of the signs).
CanShareUnsigned(prev_end_slope, prev_end_angle, start_slope, start_angle) ==
    IF ~prev_end_slope /\ ~start_slope THEN TRUE
    ELSE IF prev_end_slope /\ start_slope
    THEN /\ prev_end_angle # None /\ start_angle # None
         /\ Abs(Abs(prev_end_angle) - Abs(start_angle)) <= FLUSH_TOL
    ELSE FALSE

\* can_share of the simulation's inner loop: as it stands, or flipped.
SimCanFlushNow(prev_end_slope, prev_end_angle, id) ==
    \/ CanShareUnsigned(prev_end_slope, prev_end_angle,
                        parts[id].start_has_slope, parts[id].start_angle)
    \/ CanShareUnsigned(prev_end_slope, prev_end_angle,
                        parts[id].end_has_slope, parts[id].end_angle)

RECURSIVE Simulate(_, _, _, _)
\* The while loop of one trial: returns [length, parts] of the simulation.
Simulate(simulated_length, simulated_parts, parts_added, simulated_remaining_sorted) ==
    LET prev == parts[simulated_parts[Len(simulated_parts)]]
        open == SelectSeq(simulated_remaining_sorted,
                          LAMBDA id : ~InSeq(id, simulated_parts))
        can_flush_now == SelectSeq(open, LAMBDA id :
                             SimCanFlushNow(prev.end_has_slope, prev.end_angle, id))
        cannot_flush_now == SelectSeq(open, LAMBDA id :
                             ~SimCanFlushNow(prev.end_has_slope, prev.end_angle, id))
        next_candidates == can_flush_now \o cannot_flush_now
        next_part == next_candidates[1]
        kerf == IF InSeq(next_part, can_flush_now) THEN 0 ELSE KERF
        new_length == simulated_length + LengthOf(next_part) + kerf
        stop == [length |-> simulated_length, parts |-> simulated_parts]
    IN  IF ~(parts_added < MAX_PARTS_TO_TRY /\ simulated_remaining_sorted # <<>>)
        THEN stop
        ELSE IF next_candidates = <<>> THEN stop
        ELSE IF new_length <= best_stock
        THEN Simulate(new_length, Append(simulated_parts, next_part), parts_added + 1,
                      simulated_remaining_sorted)
        ELSE stop

\* The simulation of a bar that starts with trial_start_part.
Trial(trial_start_part, parts_to_consider) ==
    LET t == parts[trial_start_part]
        simulated_remaining == SelectSeq(parts_to_consider,
                                         LAMBDA id : id # trial_start_part)
        can_flush_sim == SelectSeq(simulated_remaining, LAMBDA id :
                            CanShareUnsigned(t.end_has_slope, t.end_angle,
                                             parts[id].start_has_slope,
                                             parts[id].start_angle))
        cannot_flush_sim == SelectSeq(simulated_remaining, LAMBDA id :
                            ~CanShareUnsigned(t.end_has_slope, t.end_angle,
                                              parts[id].start_has_slope,
                                              parts[id].start_angle))
    IN  Simulate(t.length, <<trial_start_part>>, 0,
                 SortByLengthDesc(can_flush_sim) \o SortByLengthDesc(cannot_flush_sim))

RECURSIVE BestConfiguration(_, _, _, _)
\* The loop over the trial starting parts: best_configuration (<<>>: None).
BestConfiguration(candidates, parts_to_consider, best_waste, best_configuration) ==
    IF candidates = <<>> THEN best_configuration
    ELSE LET sim == Trial(Head(candidates), parts_to_consider)
             waste == best_stock - sim.length
             better ==
                 IF best_configuration = <<>> THEN TRUE   \* waste < inf
                 ELSE \/ waste < best_waste
                      \/ /\ Abs(waste - best_waste) < SIMILAR_WASTE
                         /\ Len(sim.parts) > Len(best_configuration)
         IN  IF better
             THEN BestConfiguration(Tail(candidates), parts_to_consider, waste, sim.parts)
             ELSE BestConfiguration(Tail(candidates), parts_to_consider, best_waste,
                                    best_configuration)

\* [p for p in s if p not in xs]
Without(s, xs) == SelectSeq(s, LAMBDA id : ~InSeq(id, xs))

\* remaining_parts_sorted once the look-ahead chose best_configuration.
ConfigurationFirst(sorted, best_configuration) ==
    IF best_configuration # <<>>
    THEN best_configuration \o SortByLengthDesc(Without(sorted, best_configuration))
    ELSE sorted

\* The look-ahead branch: the parts in the order of the best configuration,
\* then the others, longest first.
LookAheadOrder(sorted) ==
    LET parts_to_consider == IF Len(sorted) > LOOKAHEAD_PARTS
                             THEN Take(sorted, LOOKAHEAD_PARTS) ELSE sorted
        candidates_to_try == Min2(CANDIDATES_TO_TRY, Len(parts_to_consider))
        straight_start_parts == SelectSeq(parts_to_consider,
                                          LAMBDA id : ~parts[id].start_has_slope)
        slope_start_parts == SelectSeq(parts_to_consider,
                                       LAMBDA id : parts[id].start_has_slope)
        candidates == Take(Take(straight_start_parts, candidates_to_try)
                           \o slope_start_parts, candidates_to_try)
    IN  ConfigurationFirst(sorted,
                           BestConfiguration(candidates, parts_to_consider, 0, <<>>))

\* flush_score of a candidate first part among `sorted`.
FlushScore(candidate, sorted) ==
    LET c == parts[candidate]
    IN  IF c.start_has_slope THEN 0 - START_SLOPE_PENALTY
        ELSE Cardinality({ k \in 1..Len(sorted) :
                /\ sorted[k] # candidate
                /\ CanShareUnsigned(c.end_has_slope, c.end_angle,
                                    parts[sorted[k]].start_has_slope,
                                    parts[sorted[k]].start_angle) })

RECURSIVE BestStartPart(_, _, _, _)
\* The loop over the candidates: [part, score] (part None: best_start_part is None).
BestStartPart(sorted, k, best_start_part, best_flush_score) ==
    IF k > Len(sorted) THEN [part |-> best_start_part, score |-> best_flush_score]
    ELSE LET flush_score == FlushScore(sorted[k], sorted)
             take == \/ flush_score > best_flush_score
                     \/ /\ flush_score = best_flush_score
                        /\ \/ best_start_part = None
                           \/ LengthOf(sorted[k]) > LengthOf(best_start_part)
         IN  IF take THEN BestStartPart(sorted, k + 1, sorted[k], flush_score)
             ELSE BestStartPart(sorted, k + 1, best_start_part, best_flush_score)

\* The flush-score branch (one or two parts).
FlushScoreOrder(sorted) ==
    LET best == BestStartPart(sorted, 1, None, -1)
    IN  IF best.part # None /\ best.score > 0
        THEN <<best.part>> \o RemoveFirst(sorted, best.part)
        ELSE SortByLengthDesc(sorted)

\* The branch of a bar that already holds a pair: flushable parts first, then
\* the others, the parts with an unpaired end slope last.
FlushPriorityOrder(sorted) ==
    LET prev_slope_info == pattern_parts[Len(pattern_parts)].slope_info
        shares(id) == CanShareUnsigned(prev_slope_info.end_has_slope,
                                       prev_slope_info.end_angle,
                                       parts[id].start_has_slope, parts[id].start_angle)
        has_complement(id) ==
            \E k \in 1..Len(sorted) :
                /\ sorted[k] # id
                /\ parts[sorted[k]].start_has_slope
                /\ parts[id].end_angle # None /\ parts[sorted[k]].start_angle # None
                /\ Abs(Abs(parts[id].end_angle) - Abs(parts[sorted[k]].start_angle))
                       <= FLUSH_TOL
        unpaired_end(id) == parts[id].end_has_slope /\ ~has_complement(id)
        can_flush == SelectSeq(sorted, LAMBDA id : shares(id))
        cannot_flush_normal ==
            SelectSeq(sorted, LAMBDA id : ~shares(id) /\ ~unpaired_end(id))
        cannot_flush_with_unpaired_end ==
            SelectSeq(sorted, LAMBDA id : ~shares(id) /\ unpaired_end(id))
    IN  SortByLengthDesc(can_flush) \o SortByLengthDesc(cannot_flush_normal)
        \o SortByLengthDesc(cannot_flush_with_unpaired_end)

\* remaining_parts_sorted as the fill loop iterates it.
FillOrder ==
    LET sorted == Without(valid_parts_for_this_stock, parts_to_remove)
    IN  IF Len(pattern_parts) = 0 /\ Len(sorted) > 0
        THEN IF Min2(Len(sorted), LOOKAHEAD_PARTS) >= 3 THEN LookAheadOrder(sorted)
             ELSE IF Len(sorted) <= 50 THEN FlushScoreOrder(sorted)
             ELSE SortByLengthDesc(sorted)
        ELSE IF Len(pattern_parts) > 0 /\ Len(sorted) > 0
        THEN FlushPriorityOrder(sorted)
        ELSE SortByLengthDesc(sorted)

OrderParts ==
    /\ pc = "order"
    /\ remaining_parts_sorted' = FillOrder
    /\ fk' = 1
    /\ pc' = "fill"
    /\ UNCHANGED << inputVars, extractVars, poolVars, best_stock,
                    valid_parts_for_this_stock, pattern_parts, current_length,
                    total_parts_length, cut_position, parts_to_remove, pi, pj, report >>

(* ------------------------------------------------------------------ *)
(* Step 2: the fill loop                                                *)
(* ------------------------------------------------------------------ *)

\* can_share of the fill loop: both ends straight, or both sloped with
\* magnitudes within 2 degrees and opposite signs.
CanShare(prev_end_has_slope, prev_end_angle, start_has_slope, start_angle) ==
    IF ~prev_end_has_slope /\ ~start_has_slope THEN TRUE
    ELSE IF prev_end_has_slope /\ start_has_slope
    THEN /\ prev_end_angle # None /\ start_angle # None
         /\ Abs(Abs(prev_end_angle) - Abs(start_angle)) <= FLUSH_TOL
         /\ OppositeSigns(prev_end_angle, start_angle)
    ELSE FALSE

\* The part after 'swap start and end': angles and slope flags are swapped,
\* the confidences stay where they were.
Flip(p) ==
    [p EXCEPT !.start_angle = p.end_angle, !.end_angle = p.start_angle,
              !.start_has_slope = p.end_has_slope, !.end_has_slope = p.start_has_slope,
              !.flipped = TRUE]

\* The part is flipped before it is placed: the bar holds a part, the
\* boundary cannot be shared as the part lies, and can when it is turned.
FlipsPart(p) ==
    /\ Len(pattern_parts) > 0
    /\ LET prev_slope_info == pattern_parts[Len(pattern_parts)].slope_info
       IN  /\ ~CanShare(prev_slope_info.end_has_slope, prev_slope_info.end_angle,
                        p.start_has_slope, p.start_angle)
           /\ CanShare(prev_slope_info.end_has_slope, prev_slope_info.end_angle,
                       p.end_has_slope, p.end_angle)

\* A kerf at every boundary, flush or not (C7 must tell the two apart).
KerfAlways(p) == IF Len(pattern_parts) = 0 THEN 0 ELSE KERF

\* A kerf charged in front of the first part of a bar as well.
KerfOnFirst(p) ==
    IF Len(pattern_parts) = 0 THEN KERF
    ELSE LET prev_slope_info == pattern_parts[Len(pattern_parts)].slope_info
         IN  IF CanShare(prev_slope_info.end_has_slope, prev_slope_info.end_angle,
                         p.start_has_slope, p.start_angle)
             THEN 0
             ELSE IF FlipsPart(p) THEN 0 ELSE KERF

\* kerf_mm of the boundary in front of part p.
KerfFor(p) ==
    IF Len(pattern_parts) = 0 THEN 0
    ELSE LET prev_slope_info == pattern_parts[Len(pattern_parts)].slope_info
         IN  IF CanShare(prev_slope_info.end_has_slope, prev_slope_info.end_angle,
                         p.start_has_slope, p.start_angle)
             THEN 0
             ELSE IF FlipsPart(p) THEN 0 ELSE KERF

\* One pass of the body of 'for part in remaining_parts_sorted'.
FillStep ==
    /\ pc = "fill"
    /\ IF fk > Len(remaining_parts_sorted)
       THEN \* the loop is exhausted
            /\ pc' = "close"
            /\ UNCHANGED << parts, pattern_parts, current_length, total_parts_length,
                            cut_position, parts_to_remove, fk >>
       ELSE LET id == remaining_parts_sorted[fk]
                part == IF FlipsPart(parts[id]) THEN Flip(parts[id]) ELSE parts[id]
                kerf_mm == KerfFor(parts[id])
                new_length == current_length + part.length + kerf_mm
            IN  IF InSeq(id, parts_to_remove) \/ ~InSeq(id, valid_parts_for_this_stock)
                THEN \* continue
                     /\ fk' = fk + 1 /\ pc' = pc
                     /\ UNCHANGED << parts, pattern_parts, current_length,
                                     total_parts_length, cut_position, parts_to_remove >>
                ELSE IF current_length > best_stock + tolerance_mm
                THEN \* safety break
                     /\ pc' = "close"
                     /\ UNCHANGED << parts, pattern_parts, current_length,
                                     total_parts_length, cut_position, parts_to_remove, fk >>
                ELSE IF new_length > best_stock + tolerance_mm
                THEN \* the part does not fit: continue (a flip stays)
                     /\ parts' = [parts EXCEPT ![id] = part]
                     /\ fk' = fk + 1 /\ pc' = pc
                     /\ UNCHANGED << pattern_parts, current_length, total_parts_length,
                                     cut_position, parts_to_remove >>
                ELSE /\ parts' = [parts EXCEPT ![id] = part]
                     /\ pattern_parts' = Append(pattern_parts,
                            Placement(part, cut_position, part.start_has_slope,
                                      part.end_has_slope, part.chain_pair, kerf_mm, 0))
                     /\ current_length' = new_length
                     /\ total_parts_length' = total_parts_length + part.length
                     /\ cut_position' = cut_position + part.length + kerf_mm
                     /\ parts_to_remove' = Append(parts_to_remove, id)
                     /\ IF Abs(new_length - best_stock) <= tolerance_mm
                        THEN /\ pc' = "close" /\ fk' = fk     \* exactly full: break
                        ELSE /\ pc' = pc /\ fk' = fk + 1
    /\ UNCHANGED << inputVars, extractVars, remaining_parts, max_iterations,
                    iteration_count, cutting_patterns, rejected_parts, best_stock,
                    valid_parts_for_this_stock, pi, pj, remaining_parts_sorted, report >>

(* ------------------------------------------------------------------ *)
(* The end of an iteration: pool removal, validation, the pattern       *)
(* ------------------------------------------------------------------ *)

\* 10.0 mm tolerance of the kerf sanity check
KERF_SANITY_TOL == 1000

\* A refused pattern that leaves no entry in rejected_parts (C13 must tell the
\* two apart).
RejectNothing(kind, shown) == <<>>

\* The entries appended to rejected_parts when the whole pattern is refused.
RejectPattern(kind, shown) ==
    [i \in 1..Len(pattern_parts) |->
        Rejected(pattern_parts[i].part, pattern_parts[i].length, best_stock, kind, shown)]

\* invalid_parts: the placements longer than the stock.
InvalidParts ==
    SelectSeq(pattern_parts, LAMBDA pp : pp.length > best_stock)

\* The validation that refuses the pattern ("none": the pattern is emitted).
ValidationFailure ==
    LET has_shared_boundaries == current_length < total_parts_length - tolerance_mm
        max_expected_kerf == (Len(pattern_parts) - 1) * KERF
    IN  IF current_length > best_stock + tolerance_mm THEN "pattern_exceeds_stock"
        ELSE IF ~has_shared_boundaries /\ total_parts_length > best_stock + tolerance_mm
        THEN "parts_length_exceeds_stock"
        ELSE IF current_length > total_parts_length + max_expected_kerf + KERF_SANITY_TOL
        THEN "calculation_error"
        ELSE IF InvalidParts # <<>> THEN "part_exceeds_selected_stock"
        ELSE "none"

\* The entries of rejected_parts for a refused pattern.
ValidationRejections(kind) ==
    IF kind = "pattern_exceeds_stock" THEN RejectPattern(kind, current_length)
    ELSE IF kind = "parts_length_exceeds_stock" THEN RejectPattern(kind, total_parts_length)
    ELSE IF kind = "calculation_error" THEN RejectPattern(kind, current_length)
    ELSE [i \in 1..Len(InvalidParts) |->
             Rejected(InvalidParts[i].part, InvalidParts[i].length, best_stock, kind,
                      InvalidParts[i].length)]

\* The waste without the cap at the stock length (C4 must tell the two apart).
WasteUncapped(stock, consumed) == stock - consumed

\* waste = best_stock - min(current_length, best_stock)
Waste(stock, consumed) == stock - Min2(consumed, stock)

\* The entry appended to cutting_patterns.
Pattern ==
    [ stock_length |-> best_stock,
      parts        |-> pattern_parts,
      waste        |-> Waste(best_stock, current_length) ]

\* for part in parts_to_remove: remaining_parts.remove(part)
RemoveUsed(rem) == Without(rem, parts_to_remove)

\* Everything after the fill loop: the used parts leave the pool, then the
\* no-progress exits, the validations, and the emission of the pattern.
ClosePattern ==
    /\ pc = "close"
    /\ LET rem == RemoveUsed(remaining_parts)
           failure == ValidationFailure
       IN  IF parts_to_remove = <<>>
           THEN IF rem # <<>> /\ LengthOf(rem[1]) > best_stock
                THEN \* the first part is taken out of the pool; no pattern
                     /\ remaining_parts' = Tail(rem)
                     /\ pc' = "loop"
                     /\ UNCHANGED << cutting_patterns, rejected_parts >>
                ELSE \* break
                     /\ remaining_parts' = rem
                     /\ pc' = "report"
                     /\ UNCHANGED << cutting_patterns, rejected_parts >>
           ELSE IF pattern_parts = <<>>
           THEN /\ remaining_parts' = rem
                /\ pc' = "loop"
                /\ UNCHANGED << cutting_patterns, rejected_parts >>
           ELSE IF failure # "none"
           THEN /\ rejected_parts' = rejected_parts \o ValidationRejections(failure)
                /\ remaining_parts' =
                       SelectSeq(rem, LAMBDA id :
                           \A i \in 1..Len(pattern_parts) : pattern_parts[i].part # id)
                /\ pc' = "loop"
                /\ UNCHANGED cutting_patterns
           ELSE /\ cutting_patterns' = Append(cutting_patterns, Pattern)
                /\ remaining_parts' = rem
                /\ pc' = "loop"
                /\ UNCHANGED rejected_parts
    /\ UNCHANGED << inputVars, extractVars, parts, max_iterations, iteration_count,
                    barVars, report >>

(* ------------------------------------------------------------------ *)
(* The profile's report                                                 *)
(* ------------------------------------------------------------------ *)

\* The totals of the profile's entry in the report.
ProfileReport ==
    LET total_parts_in_patterns ==
            SumSeq([i \in 1..Len(cutting_patterns) |-> Len(cutting_patterns[i].parts)])
    IN  [ produced    |-> TRUE,
          total_parts |-> IF total_parts_in_patterns > 0 THEN total_parts_in_patterns
                          ELSE Len(parts),
          total_waste |-> SumSeq([i \in 1..Len(cutting_patterns) |->
                                     cutting_patterns[i].waste]) ]

BuildReport ==
    /\ pc = "report"
    /\ report' = ProfileReport
    /\ pc' = "done"
    /\ UNCHANGED << inputVars, extractVars, poolVars, barVars >>

Next ==
    \/ ClassifyElement
    \/ StartNesting
    \/ LoopExit
    \/ BeginIteration
    \/ PairNextPart1
    \/ PairTry
    \/ OrderParts
    \/ FillStep
    \/ ClosePattern
    \/ BuildReport

Spec == Init /\ [][Next]_vars

(* ------------------------------------------------------------------ *)
(* Quantities the properties speak of                                   *)
(* ------------------------------------------------------------------ *)

\* Material a sequence of placements consumes: the lengths, minus the shared
\* length of each accepted pair, plus the kerf charged at each boundary.
ConsumedBy(pls) ==
    SumSeq([i \in 1..Len(pls) |-> pls[i].length - pls[i].shared + pls[i].kerf])

\* Number of placements of part `id` over all emitted patterns.
TimesPlaced(id) ==
    SumSeq([k \in 1..Len(cutting_patterns) |->
               Cardinality({ i \in 1..Len(cutting_patterns[k].parts) :
                               cutting_patterns[k].parts[i].part = id })])

\* Number of entries of rejected_parts for part `id`.
TimesRejected(id) ==
    Cardinality({ i \in 1..Len(rejected_parts) : rejected_parts[i].product_id = id })

LongestStock == MaxOf(Range(stock_lengths_list))

\* A bar is being built (Step 1, Step 2 or the validation).
BarOpen == pc \in {"pair", "order", "fill", "close"}

\* The sequences of placements there are: every emitted pattern with its
\* stock length, and the bar being built or last built.
Bars ==
    { [parts |-> cutting_patterns[k].parts, stock |-> cutting_patterns[k].stock_length] :
          k \in 1..Len(cutting_patterns) }
    \cup { [parts |-> pattern_parts, stock |-> best_stock] }

(* ------------------------------------------------------------------ *)
(* C1                                                                   *)
(* ------------------------------------------------------------------ *)

\* C1: no-overrun. In every emitted cutting pattern the material consumed
\* (piece lengths, minus the shared length of each accepted pair, plus the
\* kerf of each non-flush boundary) is at most stock_length + 0.1 mm.
C1_NoOverrun ==
    \A k \in 1..Len(cutting_patterns) :
        ConsumedBy(cutting_patterns[k].parts) <= cutting_patterns[k].stock_length + 10

\* A pattern of two or more placements that uses the whole 0.1 mm allowance.
C1_Witness ==
    \E k \in 1..Len(cutting_patterns) :
        /\ Len(cutting_patterns[k].parts) >= 2
        /\ ConsumedBy(cutting_patterns[k].parts) = cutting_patterns[k].stock_length + 10

(* ------------------------------------------------------------------ *)
(* C2                                                                   *)
(* ------------------------------------------------------------------ *)

\* C2: every piece is accounted for. Once nesting has completed, each input
\* piece is placed exactly once in the patterns or listed exactly once in
\* rejected_parts, never both and never neither.
C2_AllAccounted ==
    pc = "done" =>
        \A id \in 1..Len(parts) : TimesPlaced(id) + TimesRejected(id) = 1

(* ------------------------------------------------------------------ *)
(* C3                                                                   *)
(* ------------------------------------------------------------------ *)

\* The entry of rejected_parts the oversize check writes for part `id`.
OversizeEntry(r, id) ==
    /\ r.product_id = id
    /\ r.stock_length = LongestStock
    /\ r.reason.kind = "exceeds_longest_stock"
    /\ r.reason.stock_text * 100 = LongestStock

\* C3: oversize rejection. A piece longer than the longest stock is never
\* placed; it has left the pool whenever a bar is being built; from the
\* first iteration on it is listed once in rejected_parts with stock_length
\* the longest stock and a reason naming that stock length; and the other
\* pieces of the group are each placed in a pattern.
C3_OversizeRejected ==
    \A id \in 1..Len(parts) :
        parts[id].length > LongestStock =>
            /\ TimesPlaced(id) = 0
            /\ \A i \in 1..Len(pattern_parts) : pattern_parts[i].part # id
            /\ BarOpen => ~InSeq(id, remaining_parts)
            /\ (BarOpen \/ pc \in {"report", "done"}) =>
                   /\ TimesRejected(id) = 1
                   /\ \E i \in 1..Len(rejected_parts) : OversizeEntry(rejected_parts[i], id)
            /\ pc = "done" =>
                   \A other \in 1..Len(parts) :
                       parts[other].length <= LongestStock => TimesPlaced(other) = 1

\* Nesting has completed for a group with an oversize piece and another
\* piece, which was placed.
C3_Witness ==
    /\ pc = "done"
    /\ \E id \in 1..Len(parts) :
           /\ parts[id].length > LongestStock
           /\ \E i \in 1..Len(rejected_parts) : OversizeEntry(rejected_parts[i], id)
    /\ \E other \in 1..Len(parts) :
           parts[other].length <= LongestStock /\ TimesPlaced(other) = 1

(* ------------------------------------------------------------------ *)
(* C4                                                                   *)
(* ------------------------------------------------------------------ *)

\* C4 as stated: waste = stock_length - consumed, and 0 <= waste <= stock_length.
C4_WasteIsStockMinusConsumed ==
    \A k \in 1..Len(cutting_patterns) :
        LET p == cutting_patterns[k]
        IN  /\ p.waste = p.stock_length - ConsumedBy(p.parts)
            /\ 0 <= p.waste /\ p.waste <= p.stock_length

\* C4, amended: waste = stock_length - min(consumed, stock_length); so
\* 0 <= waste <= stock_length always, waste = stock_length - consumed when
\* the consumed length is within the stock, and waste = 0 when the consumed
\* length exceeds the stock by the 0.1 mm the fill loop tolerates.
C4_WasteIsCapped ==
    \A k \in 1..Len(cutting_patterns) :
        LET p == cutting_patterns[k]
            consumed == ConsumedBy(p.parts)
        IN  /\ 0 <= p.waste /\ p.waste <= p.stock_length
            /\ consumed <= p.stock_length => p.waste = p.stock_length - consumed
            /\ consumed > p.stock_length => p.waste = 0

\* A pattern whose consumed length exceeds its stock, with waste 0.
C4_Witness ==
    \E k \in 1..Len(cutting_patterns) :
        /\ ConsumedBy(cutting_patterns[k].parts) > cutting_patterns[k].stock_length
        /\ cutting_patterns[k].waste = 0

(* ------------------------------------------------------------------ *)
(* C5                                                                   *)
(* ------------------------------------------------------------------ *)

\* The variant of the run, compared lexicographically: the stage, the work
\* left in it (elements to classify, iterations the cap still allows), the
\* phase of the iteration and the passes left in the phase's loop.
Variant ==
    LET n == Len(valid_parts_for_this_stock)
    IN  << CASE pc = "extract" -> 3
             [] pc = "report"  -> 1
             [] pc = "done"    -> 0
             [] OTHER          -> 2,
           CASE pc = "extract" -> Len(elements) + 1 - ei
             [] pc \in {"report", "done"} -> 0
             [] OTHER -> max_iterations - iteration_count,
           CASE pc = "pair"  -> 4
             [] pc = "order" -> 3
             [] pc = "fill"  -> 2
             [] pc = "close" -> 1
             [] OTHER        -> 0,
           CASE pc = "pair" -> (n + 2 - pi) * (n + 3) - pj
             [] pc = "fill" -> Len(remaining_parts_sorted) + 1 - fk
             [] OTHER       -> 0 >>

\* a comes before b in the lexicographic order of tuples of naturals.
LexLess(a, b) ==
    /\ \A k \in 1..4 : a[k] \in Nat /\ b[k] \in Nat
    /\ \E k \in 1..4 : a[k] < b[k] /\ \A j \in 1..(k - 1) : a[j] = b[j]

\* C5: termination. For a group of n pieces the main loop runs at most
\* min(3 * n, 500) iterations: that number is the cap the loop is given and
\* the iteration count never passes it. The run always ends with a report:
\* no state before the end is stuck, every step strictly decreases a
\* well-founded variant, and the end state holds the report. (At the loop
\* head the while test either leaves the loop or enters the body; in Step 1
\* the two steps are guarded by pj = 0 and pj > 0; the step that orders the
\* parts has no guard; what these steps do besides is assignment.)
C5_Terminates ==
    /\ [](/\ pc # "extract" =>
                 /\ max_iterations = Min2(3 * Len(parts), 500)
                 /\ iteration_count <= max_iterations
          /\ pc \in {"extract", "fill", "close", "report"} =>
                 ENABLED (\/ ClassifyElement \/ StartNesting \/ FillStep
                          \/ ClosePattern \/ BuildReport)
          /\ pc = "pair" => pj >= 0
          /\ pc = "done" => report.produced)
    /\ [][LexLess(Variant', Variant)]_vars

\* The loop was ended by the cap of 500 with pieces left, and the report
\* was produced all the same.
C5_Witness ==
    /\ pc = "done" /\ report.produced
    /\ iteration_count = 500
    /\ 3 * Len(parts) > 500
    /\ remaining_parts # <<>>

(* ------------------------------------------------------------------ *)
(* C6                                                                   *)
(* ------------------------------------------------------------------ *)

\* profile_depth * tan(angle)
DepthTimesTan(angle) == (estimated_profile_depth * TanMilli(Abs(angle))) \div 1000

\* The group has two pieces and one stock length, Step 1 finds the two
\* complementary, and nothing has been flipped; `first` is the longer piece
\* (the earlier of two equal ones), `second` the other.
PairOfTwo(first, second) ==
    /\ Len(parts) = 2 /\ Len(stock_lengths_list) = 1
    /\ {first, second} = {1, 2}
    /\ first = (IF parts[2].length > parts[1].length THEN 2 ELSE 1)
    /\ ~parts[1].flipped /\ ~parts[2].flipped
    /\ PairingType(parts[first], parts[second]) # "none"

\* The one pattern of a two-piece group is the pair first, second charged
\* length1 + length2 - shared, with waste = stock - that.
PairedWithShared(first, second, shared) ==
    LET combined == parts[first].length + parts[second].length - shared
    IN  combined <= stock_lengths_list[1] =>
            /\ rejected_parts = <<>>
            /\ Len(cutting_patterns) = 1
            /\ Len(cutting_patterns[1].parts) = 2
            /\ cutting_patterns[1].parts[1].part = first
            /\ cutting_patterns[1].parts[2].part = second
            /\ ConsumedBy(cutting_patterns[1].parts) = combined
            /\ cutting_patterns[1].waste = stock_lengths_list[1] - combined

\* C6 as stated: two pieces with matching paired end angles are charged
\* length1 + length2 - profile_depth * tan(angle) and, when that fits the
\* only stock length, placed in one pattern with waste = stock - combined.
C6_SharedIsDepthTimesTan ==
    pc = "done" =>
        \A first, second \in 1..Len(parts) :
            PairOfTwo(first, second) =>
                PairedWithShared(first, second,
                    DepthTimesTan(AngleForCalculation(parts[first], parts[second])))

\* C6, amended: the shared length is profile_depth * tan(angle) but never
\* more than 90% of the shorter piece, the angle being that of the paired
\* end of the longer piece; with that shared length the two pieces are
\* charged length1 + length2 - shared and, when that fits the only stock
\* length, are placed in one pattern with waste = stock - combined. In any
\* group, the second piece of an accepted pair starts where the first ends
\* less a shared length of that form.
C6_SharedIsClamped ==
    /\ pc = "done" =>
           \A first, second \in 1..Len(parts) :
               PairOfTwo(first, second) =>
                   PairedWithShared(first, second,
                       Min2(DepthTimesTan(AngleForCalculation(parts[first], parts[second])),
                            (Min2(parts[first].length, parts[second].length) * 9) \div 10))
    /\ \A bar \in Bars :
           \A i \in 1..Len(bar.parts) :
               bar.parts[i].shared > 0 =>
                   /\ i >= 2
                   /\ bar.parts[i].cut_position = bar.parts[i - 1].cut_position
                          + bar.parts[i - 1].length - bar.parts[i].shared
                   /\ \E angle \in {bar.parts[i - 1].slope_info.start_angle,
                                    bar.parts[i - 1].slope_info.end_angle} \ {None} :
                          bar.parts[i].shared =
                              Min2(DepthTimesTan(angle),
                                   (Min2(bar.parts[i - 1].length, bar.parts[i].length) * 9)
                                       \div 10)

\* The spec's example: 3000 + 3000 at 45 degrees, depth 200, stock 6000:
\* one pattern, consumed 5800, waste 200.
C6_Witness ==
    /\ pc = "done"
    /\ \E first, second \in 1..Len(parts) :
           /\ PairOfTwo(first, second)
           /\ parts[first].length = 300000 /\ parts[second].length = 300000
           /\ stock_lengths_list = <<600000>>
           /\ Len(cutting_patterns) = 1
           /\ ConsumedBy(cutting_patterns[1].parts) = 580000
           /\ cutting_patterns[1].waste = 20000

(* ------------------------------------------------------------------ *)
(* C7                                                                   *)
(* ------------------------------------------------------------------ *)

\* Every piece of the group has square ends: no cut data, or cuts that do
\* not deviate from square.
AllSquare ==
    \A i \in 1..Len(elements) :
        /\ elements[i].start.present => Deviation(elements[i].start.angle) = 0
        /\ elements[i].end.present => Deviation(elements[i].end.angle) = 0

\* C7: flush, no kerf. In a group of square-ended pieces no kerf is charged
\* and nothing is shared (each bar's consumed length is the sum of its
\* piece lengths); and when the total length fits a stock length, all the
\* pieces end in one pattern with waste = stock - total.
C7_FlushNoKerf ==
    AllSquare =>
        /\ \A bar \in Bars :
               /\ \A i \in 1..Len(bar.parts) :
                      bar.parts[i].kerf = 0 /\ bar.parts[i].shared = 0
               /\ ConsumedBy(bar.parts) =
                      SumSeq([i \in 1..Len(bar.parts) |-> bar.parts[i].length])
        /\ (/\ pc = "done" /\ parts # <<>>
            /\ \E s \in Range(stock_lengths_list) :
                   SumSeq([i \in 1..Len(parts) |-> parts[i].length]) <= s) =>
               /\ Len(cutting_patterns) = 1
               /\ Len(cutting_patterns[1].parts) = Len(parts)
               /\ cutting_patterns[1].waste = cutting_patterns[1].stock_length
                      - SumSeq([i \in 1..Len(parts) |-> parts[i].length])

\* The spec's example: 2000 and 3000 square in a 6000 stock: one pattern,
\* waste 1000.
C7_Witness ==
    /\ pc = "done" /\ AllSquare
    /\ Len(parts) = 2
    /\ {parts[1].length, parts[2].length} = {200000, 300000}
    /\ Len(cutting_patterns) = 1
    /\ cutting_patterns[1].stock_length = 600000
    /\ Len(cutting_patterns[1].parts) = 2
    /\ cutting_patterns[1].waste = 100000

(* ------------------------------------------------------------------ *)
(* C8                                                                   *)
(* ------------------------------------------------------------------ *)

\* The stock lengths that are >= the total length of the pool and >= every
\* piece of it.
StocksFittingAll ==
    { s \in Range(stock_lengths_list) :
        /\ SumSeq(Lengths(remaining_parts)) <= s
        /\ \A i \in 1..Len(remaining_parts) : LengthOf(remaining_parts[i]) <= s }

\* C8: stock selection. Whenever a bar is open, its stock length is the
\* shortest one that is >= the total length of the remaining pieces and >=
\* every remaining piece, if there is one, and the longest stock length
\* otherwise.
C8_StockSelection ==
    BarOpen =>
        best_stock = (IF StocksFittingAll # {} THEN MinOf(StocksFittingAll)
                      ELSE LongestStock)

\* Two stock lengths both hold the whole pool of several pieces, and the
\* bar was opened on the shorter one.
C8_Witness ==
    /\ BarOpen
    /\ Len(remaining_parts) >= 2
    /\ Cardinality(StocksFittingAll) = 2
    /\ best_stock = 600000

(* ------------------------------------------------------------------ *)
(* C9                                                                   *)
(* ------------------------------------------------------------------ *)

\* The ids placed in a bar.
PlacedIn(bar) == { bar.parts[i].part : i \in 1..Len(bar.parts) }

\* C9: pair atomicity and exact fit. In every bar, built or being built, the
\* second piece of an accepted pair (the placement that carries the shared
\* length) directly follows the first, overlapping it by the shared length;
\* the pair's combined length is within the stock length with no tolerance,
\* and so is everything consumed up to and including the pair; the two
\* pieces are in no other bar, and they are in the pool or out of it
\* together.
C9_PairAtomicExact ==
    \A bar \in Bars :
        \A i \in 1..Len(bar.parts) :
            bar.parts[i].shared > 0 =>
                /\ i >= 2
                /\ bar.parts[i].cut_position = bar.parts[i - 1].cut_position
                       + bar.parts[i - 1].length - bar.parts[i].shared
                /\ bar.parts[i - 1].length + bar.parts[i].length - bar.parts[i].shared
                       <= bar.stock
                /\ ConsumedBy(SubSeq(bar.parts, 1, i)) <= bar.stock
                /\ \A other \in Bars :
                       other.parts # bar.parts =>
                           PlacedIn(other) \cap {bar.parts[i - 1].part, bar.parts[i].part} = {}
                /\ InSeq(bar.parts[i - 1].part, remaining_parts)
                       <=> InSeq(bar.parts[i].part, remaining_parts)

\* A second pair was accepted into a bar that already held one.
C9_Witness ==
    \E k \in 1..Len(cutting_patterns) :
        /\ Len(cutting_patterns[k].parts) = 4
        /\ cutting_patterns[k].parts[2].shared > 0
        /\ cutting_patterns[k].parts[4].shared > 0
        /\ ~InSeq(cutting_patterns[k].parts[3].part, remaining_parts)
        /\ ~InSeq(cutting_patterns[k].parts[4].part, remaining_parts)

(* ------------------------------------------------------------------ *)
(* C10                                                                  *)
(* ------------------------------------------------------------------ *)

\* The confidence of the cut that now lies at the start (the end) of part p:
\* a flip swaps the ends but leaves the confidences under their old names.
StartCutConfidence(p) == IF p.flipped THEN p.end_confidence ELSE p.start_confidence

EndCutConfidence(p) == IF p.flipped THEN p.start_confidence ELSE p.end_confidence

ShortLowConfidence(p) ==
    /\ p.length < 50000
    /\ p.start_confidence < 50 /\ p.end_confidence < 50

\* An unflagged end that pairing counts as a slope: it deviates more than 5
\* degrees and the confidence recorded under its name is in (0.2, 0.5].
WeakSlope(angle, conf) ==
    /\ angle # None /\ Deviation(angle) > 5
    /\ 20 < conf /\ conf <= 50

C11_FlagsIndependent ==
    pc = "extract" =>
        \A id \in 1..Len(parts) :
            /\ parts[id].start_has_slope
                   = ClassifyPart(elements[id], id, Unbound).start_has_slope
            /\ parts[id].end_has_slope
                   = ClassifyPart(elements[id], id, Unbound).end_has_slope

(* ------------------------------------------------------------------ *)
(* C12                                                                  *)
(* ------------------------------------------------------------------ *)

\* Every order in which the caller could have listed the stock lengths s.
PermutationsOf(s) ==
    { q \in [1..Len(s) -> Range(s)] :
        \A v \in Range(s) :
            Cardinality({ i \in 1..Len(s) : q[i] = v })
                = Cardinality({ i \in 1..Len(s) : s[i] = v }) }

ValidationRefuses ==
    /\ pc = "close"
    /\ parts_to_remove # <<>> /\ pattern_parts # <<>>
    /\ ValidationFailure \in {"pattern_exceeds_stock", "parts_length_exceeds_stock"}

PairMember(bar, i) ==
    \/ bar.parts[i].shared > 0
    \/ i < Len(bar.parts) /\ bar.parts[i + 1].shared > 0

\* Two parts the chain pre-step connects: a flagged end of the one matches
\* a flagged end of the other.
Connected(p, q) ==
    LET FlaggedAngles(r) ==
            (IF r.start_has_slope THEN {r.start_angle} ELSE {})
            \cup (IF r.end_has_slope THEN {r.end_angle} ELSE {})
    IN  \E a \in FlaggedAngles(p), b \in FlaggedAngles(q) :
            slopes_match(a, b) \/ slopes_match(b, a)

\* C14 as stated: a placement is flagged complementary_pair only if the
\* piece was placed in that pattern as a member of an accepted pair; a
\* piece the fill loop placed on its own is never flagged.
C14_FlagMeansPaired ==
    \A bar \in Bars :
        \A i \in 1..Len(bar.parts) :
            bar.parts[i].slope_info.complementary_pair => PairMember(bar, i)

\* C14, amended: a placement is flagged complementary_pair only if the
\* piece was placed as a member of an accepted pair or the chain pre-step
\* of this or an earlier iteration marked the piece; the pre-step marks a
\* piece only if a flagged end of it matches a flagged end of another piece
\* of the group. A piece of the fill loop that no chain held is not flagged.
C14_FlagMeansPairedOrChained ==
    /\ \A bar \in Bars :
           \A i \in 1..Len(bar.parts) :
               bar.parts[i].slope_info.complementary_pair =>
                   PairMember(bar, i) \/ parts[bar.parts[i].part].chain_pair
    /\ \A id \in 1..Len(parts) :
           parts[id].chain_pair =>
               \E other \in 1..Len(parts) :
                   other # id /\ Connected(parts[id], parts[other])

\* Two pieces a chain held were each placed on their own, in a bar each,
\* and both placements are flagged.
C14_Witness ==
    \E a, b \in 1..Len(cutting_patterns) :
        /\ a # b
        /\ Len(cutting_patterns[a].parts) = 1 /\ Len(cutting_patterns[b].parts) = 1
        /\ cutting_patterns[a].parts[1].slope_info.complementary_pair
        /\ cutting_patterns[b].parts[1].slope_info.complementary_pair

(* ------------------------------------------------------------------ *)
(* The cut piece extractor (src/api/cut_piece_extractor.py)             *)
(*                                                                      *)
(* Points are given in the frame of the piece axis: `along` is the      *)
(* coordinate along axis_world and `perp` one coordinate across it, in  *)
(* hundredths of a millimetre. A plane normal is given by its angle to  *)
(* axis_world in whole degrees (0..180): normal . axis_world is         *)
(* positive below 90, zero at 90 and negative above 90.                 *)
(* ------------------------------------------------------------------ *)

\* Most vertices captured near one extremity of a mesh.
MaxEndPoints == 4

\* tolerances["plane_residual_mm"] = 2.0
plane_residual_mm == 200

\* A fitter that is content with two points.
TwoPoints == 1 + 1

\* len(vertices) < 3, len(start_vertices) >= 3, len(end_vertices) >= 3
MIN_PLANE_POINTS == 3

\* abs(actual_length - cut_piece.length) > 1.0
LENGTH_UPDATE_TOL == 100

\* element_type not in {"IfcBeam", "IfcColumn", "IfcMember"}
SteelTypes == {"IfcBeam", "IfcColumn", "IfcMember"}

Point(a, p) == [along |-> a, perp |-> p]

\* return None
NoPiece == [returned |-> "None"]

\* An exception leaves the function instead of a value.
Raised == [returned |-> "exception"]

\* end_cuts[...] = None
NoEndCut == [fitted |-> FALSE]

EndCut(normal, angle_deg, confidence) ==
    [fitted |-> TRUE, normal |-> normal, angle_deg |-> angle_deg, confidence |-> confidence]

\* The tessellation of an element as the extractor reads it: what create_shape
\* gives, the extent of the vertices along the axis, and where across the axis
\* the vertex of least and the vertex of greatest projection lie.
MeshesOf(depth) ==
    { [shape |-> "shape", min_proj |-> sp[1], max_proj |-> sp[2],
       min_vertex_perp |-> a, max_vertex_perp |-> b] :
          sp \in { <<0, depth>>, <<0, depth + 50>>, <<5000, depth - 5000>> },
          a \in {0, 10000}, b \in {0, 10000} }
    \cup { [shape |-> o, min_proj |-> 0, max_proj |-> 0,
            min_vertex_perp |-> 0, max_vertex_perp |-> 0] :
              o \in {"no_shape", "no_vertices", "raises"} }

\* The elements handed to extract_cut_piece: the entity type, whether a
\* Representation is attached, how far the parametric reading gets, the
\* extrusion depth in millimetres, and the tessellation.
Elements ==
    { [is_a |-> k, Representation |-> r, native |-> n, Depth |-> 300000, mesh |-> m] :
          k \in {"IfcBeam", "IfcMember", "IfcPlate"}, r \in BOOLEAN,
          n \in {"extruded_solid", "no_placement", "no_extruded_solid", "no_direction",
                 "raises"},
          m \in MeshesOf(300000) }

\* What numpy gives for the vertices of one extremity: the SVD fails, or it
\* yields a normal (angle to the axis, either sign) and a mean residual.
NoFitInput == [svd |-> "raises", normal |-> 0, avg_residual |-> 0]

Fits ==
    { NoFitInput }
    \cup { [svd |-> "ok", normal |-> t, avg_residual |-> r] :
               t \in {0, 45, 135}, r \in {0, 100, 200, 300} }

\* The numbers of vertices a slice of the mesh may hold.
VertexCounts == {0, MIN_PLANE_POINTS - 1, MIN_PLANE_POINTS, MaxEndPoints}

\* Both extremities hold fewer than 3 vertices: the selection is run again.
Retries(c) == c.start < MIN_PLANE_POINTS /\ c.end < MIN_PLANE_POINTS

\* What the vertex selection of _detect_end_cuts_from_vertices meets: the
\* vertices near each extremity at the first threshold and at the larger
\* threshold (a superset), and what the fit of the selected vertices gives.
Captures ==
    { c \in [start : VertexCounts, end : VertexCounts,
             start_larger : VertexCounts, end_larger : VertexCounts,
             start_fit : Fits, end_fit : Fits] :
          /\ c.start_larger >= c.start
          /\ c.end_larger >= c.end
          /\ (IF Retries(c) THEN c.start_larger ELSE c.start) < MIN_PLANE_POINTS
                 => c.start_fit = NoFitInput
          /\ (IF Retries(c) THEN c.end_larger ELSE c.end) < MIN_PLANE_POINTS
                 => c.end_fit = NoFitInput }

\* The capture of a call in which the vertex selection is not reached.
NoCapture ==
    [start |-> 0, end |-> 0, start_larger |-> 0, end_larger |-> 0,
     start_fit |-> NoFitInput, end_fit |-> NoFitInput]

\* A confidence that is not clamped at 0.
Unclamped(residual) == 100 - (100 * residual) \div 200

\* confidence = max(0, 1.0 - (avg_residual / plane_residual_mm)), in hundredths
\* (the residuals of the model are whole multiples of 0.02 mm).
Confidence(residual) ==
    IF 100 - (100 * residual) \div plane_residual_mm < 0
    THEN 0
    ELSE 100 - (100 * residual) \div plane_residual_mm

\* if np.dot(plane_normal, axis_world) < 0: plane_normal = -plane_normal
OrientNormal(normal) == IF normal > 90 THEN 180 - normal ELSE normal

\* degrees(arccos(clip(abs(np.dot(plane_normal, axis_world)), 0, 1)))
AngleFromPerpendicular(normal) == IF normal > 90 THEN 180 - normal ELSE normal

\* _fit_end_plane(vertices, end_point, axis_world), n = len(vertices)
fit_end_plane(n, fit) ==
    IF n < MIN_PLANE_POINTS THEN NoEndCut
    ELSE IF fit.svd = "raises" THEN NoEndCut
    ELSE EndCut(OrientNormal(fit.normal),
                AngleFromPerpendicular(OrientNormal(fit.normal)),
                Confidence(fit.avg_residual))

\* avg_residual of a call of _fit_end_plane, NoFit when it returned before.
ResidualOf(n, fit) ==
    IF n < MIN_PLANE_POINTS \/ fit.svd = "raises" THEN NoFit ELSE fit.avg_residual

\* _detect_end_cuts_from_vertices: the vertex selection, the retry with the
\* larger threshold, the fit of each extremity, and actual_length.
detect_end_cuts_from_vertices(mesh, c) ==
    LET sv == IF Retries(c) THEN c.start_larger ELSE c.start
        ev == IF Retries(c) THEN c.end_larger ELSE c.end
    IN  [end_cuts |-> [start |-> IF sv >= MIN_PLANE_POINTS
                                 THEN fit_end_plane(sv, c.start_fit) ELSE NoEndCut,
                       end |-> IF ev >= MIN_PLANE_POINTS
                               THEN fit_end_plane(ev, c.end_fit) ELSE NoEndCut],
         actual_length |-> mesh.max_proj - mesh.min_proj,
         start_vertices |-> sv,
         end_vertices |-> ev,
         selection |-> [runs |-> IF Retries(c) THEN 2 ELSE 1,
                        start_enough |-> c.start >= MIN_PLANE_POINTS,
                        end_enough |-> c.end >= MIN_PLANE_POINTS],
         avg_residual |-> [start |-> ResidualOf(sv, c.start_fit),
                           end |-> ResidualOf(ev, c.end_fit)]]

\* The vertex selection is reached: create_shape gave a shape with vertices.
DetectionRuns(mesh) == mesh.shape = "shape"

\* An exception that nothing catches leaves the function.
Uncaught(result) == result

\* except Exception: return None
ExceptNone(result) == IF result = Raised THEN NoPiece ELSE result

\* _detect_end_cuts_from_mesh(element, cut_piece): the end cuts of a native
\* piece, and the piece's length and endpoints replaced by the vertices' when
\* the lengths differ by more than 1 mm. Without a shape, and on any exception
\* (an empty vertex array raises in np.min), both end cuts are None.
detect_end_cuts_from_mesh(e, piece, c) ==
    IF ~DetectionRuns(e.mesh)
    THEN [piece EXCEPT !.end_cuts = [start |-> NoEndCut, end |-> NoEndCut]]
    ELSE LET d == detect_end_cuts_from_vertices(e.mesh, c)
         IN  IF Abs(d.actual_length - piece.length) > LENGTH_UPDATE_TOL
             THEN [piece EXCEPT !.end_cuts = d.end_cuts,
                                !.length = d.actual_length,
                                !.start_world = Point(e.mesh.min_proj, e.mesh.min_vertex_perp),
                                !.end_world = Point(e.mesh.max_proj, e.mesh.max_vertex_perp)]
             ELSE [piece EXCEPT !.end_cuts = d.end_cuts]

\* The body of _extract_from_ifc_native inside its try.
NativeBody(e, c) ==
    IF ~e.Representation THEN NoPiece
    ELSE IF e.native \in {"no_placement", "no_extruded_solid", "no_direction"} THEN NoPiece
    ELSE IF e.native = "raises" THEN Raised
    ELSE detect_end_cuts_from_mesh(e,
             [returned |-> "CutPiece",
              element_type |-> e.is_a,
              length |-> e.Depth,
              start_world |-> Point(0, 0),
              end_world |-> Point(e.Depth, 0),
              end_cuts |-> [start |-> NoEndCut, end |-> NoEndCut],
              source_method |-> "ifc_native"], c)

\* _extract_from_ifc_native(element)
extract_from_ifc_native(e, c) == ExceptNone(NativeBody(e, c))

\* The body of _extract_from_mesh inside its try: the axis is the principal
\* axis of the vertices, the endpoints lie on the line through the centroid.
MeshBody(e, c) ==
    IF ~e.Representation THEN NoPiece
    ELSE IF e.mesh.shape = "raises" THEN Raised
    ELSE IF e.mesh.shape \in {"no_shape", "no_vertices"} THEN NoPiece
    ELSE LET d == detect_end_cuts_from_vertices(e.mesh, c)
         IN  [returned |-> "CutPiece",
              element_type |-> e.is_a,
              length |-> d.actual_length,
              start_world |-> Point(e.mesh.min_proj, 0),
              end_world |-> Point(e.mesh.max_proj, 0),
              end_cuts |-> d.end_cuts,
              source_method |-> "mesh_based"]

\* _extract_from_mesh(element)
extract_from_mesh(e, c) == ExceptNone(MeshBody(e, c))

\* The vertex selection runs in the native path / in the mesh path.
NativeDetects(e) ==
    e.Representation /\ e.native = "extruded_solid" /\ DetectionRuns(e.mesh)

MeshDetects(e) == e.Representation /\ DetectionRuns(e.mesh)

\* generate_nesting is not running.
NestingIdle ==
    /\ elements = <<>>
    /\ stock_input = <<>>
    /\ stock_lengths_list = <<>>
    /\ pc = "idle"
    /\ ei = 1
    /\ start_deviation_value = Unbound
    /\ parts = <<>>
    /\ remaining_parts = <<>>
    /\ max_iterations = 0
    /\ iteration_count = 0
    /\ cutting_patterns = <<>>
    /\ rejected_parts = <<>>
    /\ best_stock = 0
    /\ valid_parts_for_this_stock = <<>>
    /\ pattern_parts = <<>>
    /\ current_length = 0
    /\ total_parts_length = 0
    /\ cut_position = 0
    /\ parts_to_remove = <<>>
    /\ pi = 0
    /\ pj = 0
    /\ remaining_parts_sorted = <<>>
    /\ fk = 0
    /\ report = NoReport

nestingVars == << elements, stock_input, stock_lengths_list, extractVars, poolVars,
                  barVars, pc, report >>

ExtractInit ==
    /\ NestingIdle
    /\ ConstructedWithoutFile
    /\ element \in Elements
    /\ xpc = "call"
    /\ paths_run = <<>>
    /\ cut_piece = NoPiece
    /\ start_vertices = 0
    /\ end_vertices = 0
    /\ selection = NoSelection
    /\ avg_residual = [start |-> NoFit, end |-> NoFit]

\* extract_cut_piece up to the first path: other entity types return None.
ExtractCutPiece ==
    /\ xpc = "call"
    /\ xpc' = IF element.is_a \in SteelTypes THEN "native" ELSE "returned"
    /\ UNCHANGED << element, paths_run, cut_piece, start_vertices, end_vertices,
                    selection, avg_residual, ifc_file, unit_scale, nestingVars >>

\* cut_piece = self._extract_from_ifc_native(element); a piece is returned,
\* None goes on to the mesh path.
ExtractFromIfcNative ==
    /\ xpc = "native"
    /\ \E c \in (IF NativeDetects(element) THEN Captures ELSE {NoCapture}) :
          LET r == extract_from_ifc_native(element, c)
              d == detect_end_cuts_from_vertices(element.mesh, c)
          IN  /\ cut_piece' = r
              /\ xpc' = IF r = NoPiece THEN "mesh" ELSE "returned"
              /\ paths_run' = Append(paths_run,
                                     [path |-> "ifc_native", returned |-> r.returned])
              /\ IF NativeDetects(element)
                 THEN /\ start_vertices' = d.start_vertices
                      /\ end_vertices' = d.end_vertices
                      /\ selection' = d.selection
                      /\ avg_residual' = d.avg_residual
                 ELSE UNCHANGED << start_vertices, end_vertices, selection, avg_residual >>
    /\ UNCHANGED << element, ifc_file, unit_scale, nestingVars >>

\* if not cut_piece: cut_piece = self._extract_from_mesh(element); return cut_piece
ExtractFromMesh ==
    /\ xpc = "mesh"
    /\ \E c \in (IF MeshDetects(element) THEN Captures ELSE {NoCapture}) :
          LET r == extract_from_mesh(element, c)
              d == detect_end_cuts_from_vertices(element.mesh, c)
          IN  /\ cut_piece' = r
              /\ paths_run' = Append(paths_run,
                                     [path |-> "mesh_based", returned |-> r.returned])
              /\ IF MeshDetects(element)
                 THEN /\ start_vertices' = d.start_vertices
                      /\ end_vertices' = d.end_vertices
                      /\ selection' = d.selection
                      /\ avg_residual' = d.avg_residual
                 ELSE UNCHANGED << start_vertices, end_vertices, selection, avg_residual >>
    /\ xpc' = "returned"
    /\ UNCHANGED << element, ifc_file, unit_scale, nestingVars >>

ExtractNext ==
    \/ ExtractCutPiece
    \/ ExtractFromIfcNative
    \/ ExtractFromMesh

ExtractSpec == ExtractInit /\ [][ExtractNext]_vars

(* ------------------------------------------------------------------ *)
(* The constructor's unit detection (CutPieceExtractor.__init__,        *)
(* _detect_unit_scale). Sampled lengths and the scale are integers in   *)
(* thousandths: 1000 is 1.0, 1 is 0.001.                                *)
(* ------------------------------------------------------------------ *)

\* Most beams, and most columns, of an enumerated file.
MaxProducts == 2

\* products[:10]
SAMPLE_LIMIT == 10

\* avg_length < 1.0
METERS_BELOW == 1000

\* avg_length > 1000
MM_ABOVE == 1000000

\* avg_length > 10.0
AMBIGUOUS_MM_ABOVE == 10000

\* return 1.0 (meters)
SCALE_METERS == 1000

\* return 0.001 (mm)
SCALE_MM == 1

\* _get_length_from_ifc gave None (no representation, no extruded solid, or
\* an exception).
NoLength == -1

\* self.unit_scale before __init__ has run.
Unset == -2

\* What _get_length_from_ifc gives for a product: None, or float(item.Depth).
SampleLengths == {NoLength, 0, 500, 1000, 9000, 10000, 10001, 1000000, 1000001, 6000000}

\* The files the constructor is given: none, one whose by_type raises, or one
\* with beams and columns; and the unit_scale argument (0: None).
IfcFiles ==
    { [file |-> f, given |-> g, beams |-> <<>>, columns |-> <<>>] :
          f \in {"none", "by_type_raises"}, g \in {0, SCALE_METERS, SCALE_MM} }
    \cup { [file |-> "products", given |-> g, beams |-> b, columns |-> c] :
               g \in {0, SCALE_MM},
               b \in SeqsUpTo(SampleLengths, MaxProducts),
               c \in SeqsUpTo({NoLength, 500, 12000}, MaxProducts - 1) }

\* lengths: the usable samples of the first 10 products.
SampledLengths(products) ==
    SelectSeq(SubSeq(products, 1, Min2(Len(products), SAMPLE_LIMIT)),
              LAMBDA length : length # NoLength /\ length > 0)

\* The classification that counts an average of exactly 10.0 as millimetres.
ScaleMmFromTen(total, n) ==
    IF total < METERS_BELOW * n THEN SCALE_METERS
    ELSE IF total > MM_ABOVE * n THEN SCALE_MM
    ELSE IF total >= AMBIGUOUS_MM_ABOVE * n THEN SCALE_MM ELSE SCALE_METERS

\* The classification of avg_length = total / n.
ScaleOfAverage(total, n) ==
    IF total < METERS_BELOW * n THEN SCALE_METERS
    ELSE IF total > MM_ABOVE * n THEN SCALE_MM
    ELSE IF total > AMBIGUOUS_MM_ABOVE * n THEN SCALE_MM ELSE SCALE_METERS

\* _detect_unit_scale()
detect_unit_scale(f) ==
    IF f.file = "none" THEN SCALE_METERS
    ELSE IF f.file = "by_type_raises" THEN SCALE_METERS
    ELSE LET products == IF f.beams # <<>> THEN f.beams ELSE f.columns
             lengths == SampledLengths(products)
         IN  IF products = <<>> THEN SCALE_METERS
             ELSE IF lengths = <<>> THEN SCALE_METERS
             ELSE ScaleOfAverage(SumSeq(lengths), Len(lengths))

UnitInit ==
    /\ NestingIdle
    /\ ifc_file \in IfcFiles
    /\ unit_scale = Unset
    /\ element = [is_a |-> "none"]
    /\ xpc = "construct"
    /\ paths_run = <<>>
    /\ cut_piece = NoPiece
    /\ start_vertices = 0
    /\ end_vertices = 0
    /\ selection = NoSelection
    /\ avg_residual = [start |-> NoFit, end |-> NoFit]

\* __init__: unit_scale or self._detect_unit_scale() with a file,
\* unit_scale or 1.0 without.
Construct ==
    /\ xpc = "construct"
    /\ unit_scale' = IF ifc_file.given # 0 THEN ifc_file.given
                     ELSE IF ifc_file.file = "none" THEN SCALE_METERS
                     ELSE detect_unit_scale(ifc_file)
    /\ xpc' = "idle"
    /\ UNCHANGED << element, paths_run, cut_piece, start_vertices, end_vertices,
                    selection, avg_residual, ifc_file, nestingVars >>

UnitNext == Construct

UnitSpec == UnitInit /\ [][UnitNext]_vars

(* ------------------------------------------------------------------ *)
(* C15: extraction never raises and is a strategy chain                 *)
(* ------------------------------------------------------------------ *)

\* Every path that ran before the last one returned None.
EarlierPathsFailed ==
    \A i \in 1..(Len(paths_run) - 1) : paths_run[i].returned = "None"

\* C15: when extract_cut_piece has returned, no exception left it; an element
\* that is not a beam, column or member got None without any path running;
\* otherwise the native path ran first and the mesh path ran exactly when the
\* native path returned None; a returned piece carries the source_method of
\* the path that produced it, which is the first path that succeeded; and the
\* result is None exactly when every path that ran returned None.
C15_StrategyChain ==
    xpc = "returned" =>
        /\ cut_piece.returned \in {"None", "CutPiece"}
        /\ \A i \in 1..Len(paths_run) : paths_run[i].returned \in {"None", "CutPiece"}
        /\ element.is_a \notin SteelTypes => paths_run = <<>> /\ cut_piece = NoPiece
        /\ element.is_a \in SteelTypes =>
              /\ Len(paths_run) \in {1, 2}
              /\ paths_run[1].path = "ifc_native"
              /\ Len(paths_run) = 2 <=> paths_run[1].returned = "None"
              /\ Len(paths_run) = 2 => paths_run[2].path = "mesh_based"
        /\ EarlierPathsFailed
        /\ cut_piece.returned = "CutPiece" =>
              /\ paths_run # <<>>
              /\ paths_run[Len(paths_run)].returned = "CutPiece"
              /\ cut_piece.source_method = paths_run[Len(paths_run)].path
        /\ cut_piece = NoPiece <=>
              \A i \in 1..Len(paths_run) : paths_run[i].returned = "None"

\* The native path raised inside its try, the mesh path then produced the
\* piece that was returned.
C15_Witness ==
    /\ xpc = "returned"
    /\ element.native = "raises"
    /\ Len(paths_run) = 2
    /\ paths_run[1] = [path |-> "ifc_native", returned |-> "None"]
    /\ cut_piece.returned = "CutPiece"
    /\ cut_piece.source_method = "mesh_based"

(* ------------------------------------------------------------------ *)
(* C16: fewer than 3 points, no end cut                                 *)
(* ------------------------------------------------------------------ *)

\* C16: the plane fitter returns nothing for fewer than 3 points whatever the
\* points are, and in a returned piece an extremity at which fewer than 3
\* vertices were captured has end cut None.
C16_FewPointsNoCut ==
    /\ \A n \in 0..2, f \in Fits : fit_end_plane(n, f) = NoEndCut
    /\ (xpc = "returned" /\ cut_piece.returned = "CutPiece") =>
          /\ start_vertices < 3 => cut_piece.end_cuts.start = NoEndCut
          /\ end_vertices < 3 => cut_piece.end_cuts.end = NoEndCut

\* A piece is returned whose start held 2 vertices and has no start cut, while
\* its end held enough and has an end cut.
C16_Witness ==
    /\ xpc = "returned"
    /\ cut_piece.returned = "CutPiece"
    /\ start_vertices = 2
    /\ cut_piece.end_cuts.start = NoEndCut
    /\ end_vertices >= 3
    /\ cut_piece.end_cuts.end.fitted

(* ------------------------------------------------------------------ *)
(* C17: end-cut confidence                                              *)
(* ------------------------------------------------------------------ *)

\* The end cut of the returned piece at an extremity, with the mean residual
\* its fit had.
FittedEnds ==
    { [cut |-> cut_piece.end_cuts[which], residual |-> avg_residual[which]] :
          which \in { w \in {"start", "end"} :
                          /\ cut_piece.returned = "CutPiece"
                          /\ cut_piece.end_cuts[w].fitted } }

\* C17: the confidence of every fitted end cut is max(0, 1 - residual / 2 mm):
\* 1 for a residual of 0, 0 for a residual of 2 mm or more, always within
\* 0..1, and of two fitted ends the one with the larger residual never has
\* the larger confidence.
C17_ConfidenceFormula ==
    xpc = "returned" =>
        /\ \A f \in FittedEnds :
              /\ f.residual >= 0
              /\ 200 * f.cut.confidence =
                    (IF 100 * (200 - f.residual) < 0 THEN 0 ELSE 100 * (200 - f.residual))
              /\ f.residual = 0 => f.cut.confidence = 100
              /\ f.residual >= 200 => f.cut.confidence = 0
              /\ f.cut.confidence >= 0 /\ f.cut.confidence <= 100
        /\ \A f \in FittedEnds, g \in FittedEnds :
              f.residual <= g.residual => f.cut.confidence >= g.cut.confidence

\* The start fitted with a residual of 1 mm has confidence 0.5, the end fitted
\* with a residual of 3 mm has confidence 0.
C17_Witness ==
    /\ xpc = "returned"
    /\ cut_piece.returned = "CutPiece"
    /\ cut_piece.end_cuts.start.fitted
    /\ cut_piece.end_cuts.end.fitted
    /\ avg_residual = [start |-> 100, end |-> 300]
    /\ cut_piece.end_cuts.start.confidence = 50
    /\ cut_piece.end_cuts.end.confidence = 0

(* ------------------------------------------------------------------ *)
(* C18: end-cut normals point outward                                   *)
(* ------------------------------------------------------------------ *)

\* C18: in a returned piece the normal of a fitted start cut points against
\* the piece axis (normal . axis <= 0, an angle to the axis of 90 degrees or
\* more) and the normal of a fitted end cut points along it (normal . axis
\* >= 0, an angle of 90 degrees or less).
C18_NormalsOutward ==
    (xpc = "returned" /\ cut_piece.returned = "CutPiece") =>
        /\ cut_piece.end_cuts.start.fitted => cut_piece.end_cuts.start.normal >= 90
        /\ cut_piece.end_cuts.end.fitted => cut_piece.end_cuts.end.normal <= 90

(* ------------------------------------------------------------------ *)
(* C19: endpoint consistency                                            *)
(* ------------------------------------------------------------------ *)

\* The square of the norm of end_world - (start_world + axis_world * length).
EndpointGapSquared(piece) ==
    (piece.end_world.along - piece.start_world.along - piece.length)
        * (piece.end_world.along - piece.start_world.along - piece.length)
    + (piece.end_world.perp - piece.start_world.perp)
        * (piece.end_world.perp - piece.start_world.perp)

\* C19: for every piece extract_cut_piece returns, from either path, end_world
\* is start_world + axis_world * length within the extraction tolerance, a
\* few millimetres (taken as 5 mm).
C19_EndpointsConsistent ==
    (xpc = "returned" /\ cut_piece.returned = "CutPiece") =>
        EndpointGapSquared(cut_piece) <= (5 * LENGTH_UPDATE_TOL) * (5 * LENGTH_UPDATE_TOL)

(* ------------------------------------------------------------------ *)
(* C20: sloped flush in the fill loop                                   *)
(* ------------------------------------------------------------------ *)

\* The fill loop appends a placement to a bar that already holds one, and the
\* touching ends (the previous placement's end and the new placement's start,
\* as the piece lies after any flip) are both sloped with angles whose
\* magnitudes agree within 2 degrees.
FillMeetsMatchingSlopes ==
    /\ pc = "fill"
    /\ Len(pattern_parts) > 0
    /\ Len(pattern_parts') = Len(pattern_parts) + 1
    /\ LET prev == pattern_parts[Len(pattern_parts)].slope_info
           new == pattern_parts'[Len(pattern_parts')].slope_info
       IN  /\ prev.end_has_slope /\ new.start_has_slope
           /\ prev.end_angle # None /\ new.start_angle # None
           /\ Abs(Abs(prev.end_angle) - Abs(new.start_angle)) <= FLUSH_TOL

\* C20: a piece the fill loop places with a sloped start directly after a
\* placement with a sloped end, the two angles agreeing in magnitude within
\* 2 degrees, is placed with zero kerf.
C20_SlopedFlush ==
    [][FillMeetsMatchingSlopes => pattern_parts'[Len(pattern_parts')].kerf = 0]_vars

(* ------------------------------------------------------------------ *)
(* C21: the kerf lies between the two placements                        *)
(* ------------------------------------------------------------------ *)

\* C21: in every bar, a placement that was charged the kerf for the boundary
\* in front of it (the boundary is neither flush nor the shared cut of a
\* pair) starts at least 3 mm after the end of the placement before it:
\* B.cut_position >= A.cut_position + A.length + 3.
C21_KerfBetween ==
    \A bar \in Bars :
        \A i \in 1..(Len(bar.parts) - 1) :
            bar.parts[i + 1].kerf > 0 =>
                bar.parts[i + 1].cut_position >=
                    bar.parts[i].cut_position + bar.parts[i].length + 300

(* ------------------------------------------------------------------ *)
(* C22: the flip rule of the fill loop                                  *)
(* ------------------------------------------------------------------ *)

\* The fill loop places part `id` in this step.
FillPlaces(id) ==
    /\ pc = "fill"
    /\ Len(pattern_parts') = Len(pattern_parts) + 1
    /\ pattern_parts'[Len(pattern_parts')].part = id

\* C22: in a step of the fill loop a part changes only by being flipped, and
\* only the part that is placed in this step is flipped: a placed part that
\* cannot share the boundary as it lies but can when turned is turned (angles
\* and slope flags exchanged, flipped marker set, id and length as before)
\* and charged no kerf; a placed part that needs no flip, and every part that
\* is not placed in this step, keeps its orientation.
C22_FlipRule ==
    [][pc = "fill" =>
          \A id \in 1..Len(parts) :
              /\ parts'[id].product_id = parts[id].product_id
              /\ parts'[id].length = parts[id].length
              /\ (FillPlaces(id) /\ FlipsPart(parts[id])) =>
                    /\ parts'[id] = Flip(parts[id])
                    /\ pattern_parts'[Len(pattern_parts')].kerf = 0
              /\ (FillPlaces(id) /\ ~FlipsPart(parts[id])) => parts'[id] = parts[id]
              /\ ~FillPlaces(id) => parts'[id] = parts[id]]_vars

(* ------------------------------------------------------------------ *)
(* C23: a stock chosen for the whole pool takes the whole pool          *)
(* ------------------------------------------------------------------ *)

\* The bar being closed was opened with a stock length selected because all
\* remaining pieces fit together in it (the pool and the piece lengths do not
\* change between the selection and the end of the iteration).
ChosenForWholePool ==
    /\ pc = "close"
    /\ CandidateStocks(remaining_parts) # <<>>

\* C23: when the stock length of an iteration was selected because all the
\* remaining pieces fit together in it, the pattern emitted at the end of
\* that iteration holds every remaining piece and the pool is empty.
C23_WholePoolInOneBar ==
    [][ChosenForWholePool =>
          /\ remaining_parts' = <<>>
          /\ Len(cutting_patterns') = Len(cutting_patterns) + 1
          /\ Len(cutting_patterns'[Len(cutting_patterns')].parts) = Len(remaining_parts)]_vars

(* ------------------------------------------------------------------ *)
(* C24: the validations at the end of an iteration                      *)
(* ------------------------------------------------------------------ *)

\* C24: no bar that reaches the validations at the end of its iteration fails
\* one of them (consumed length above stock + 0.1, total parts length above
\* stock + 0.1 without shared boundaries, implausible consumed length, a
\* placed piece longer than the stock), and every entry of rejected_parts is
\* a piece longer than the longest stock.
C24_ValidationUnreachable ==
    /\ (pc = "close" /\ parts_to_remove # <<>> /\ pattern_parts # <<>>) =>
           ValidationFailure = "none"
    /\ \A i \in 1..Len(rejected_parts) :
           /\ rejected_parts[i].reason.kind = "exceeds_longest_stock"
           /\ rejected_parts[i].length > LongestStock

(* ------------------------------------------------------------------ *)
(* C25: the clamp of the shared length                                  *)
(* ------------------------------------------------------------------ *)

\* Step 1 accepts a pair: two placements are appended to the bar.
PairAccepted ==
    /\ pc = "pair"
    /\ Len(pattern_parts') = Len(pattern_parts) + 2

\* C25: for every pair Step 1 accepts, the shared length is at most 90% of
\* the length of the shorter piece, and the length the pair adds to the bar
\* is strictly greater than the length of the longer piece.
C25_SharedClamp ==
    [][PairAccepted =>
          LET a == pattern_parts'[Len(pattern_parts) + 1]
              b == pattern_parts'[Len(pattern_parts) + 2]
              longer == IF a.length >= b.length THEN a.length ELSE b.length
              shorter == IF a.length >= b.length THEN b.length ELSE a.length
          IN  /\ 10 * (a.shared + b.shared) <= 9 * shorter
              /\ current_length' - current_length = a.length + b.length - a.shared - b.shared
              /\ current_length' - current_length > longer]_vars

\* A bar holds a pair of 200.0 mm pieces that share 180.0 mm, 90% of the
\* shorter piece (200 mm * tan 45 = 200 mm was cut down), and takes 220.0 mm.
C25_Witness ==
    \E bar \in Bars :
        \E i \in 1..(Len(bar.parts) - 1) :
            /\ bar.parts[i].length = 20000
            /\ bar.parts[i + 1].length = 20000
            /\ bar.parts[i + 1].shared = 18000
            /\ bar.parts[i + 1].cut_position + bar.parts[i + 1].length
                   - bar.parts[i].cut_position = 22000

(* ------------------------------------------------------------------ *)
(* C26: the retry of the vertex selection                               *)
(* ------------------------------------------------------------------ *)

\* C26: in a call in which the vertex selection ran, it ran once or twice,
\* and it ran a second time (with the enlarged threshold) for every
\* extremity, start and end each on its own, at which the first selection
\* captured fewer than 3 vertices.
C26_RetryPerExtremity ==
    (xpc = "returned" /\ selection.runs > 0) =>
        /\ selection.runs \in {1, 2}
        /\ ~selection.start_enough => selection.runs = 2
        /\ ~selection.end_enough => selection.runs = 2

(* ------------------------------------------------------------------ *)
(* C27: unit-scale classification of the average sampled length         *)
(* ------------------------------------------------------------------ *)

\* The constructor has detected the scale from the products of a file.
ScaleDetected ==
    /\ xpc = "idle"
    /\ unit_scale # Unset
    /\ ifc_file.file = "products"
    /\ ifc_file.given = 0

EndOf(bar, i) == bar.parts[i].cut_position + bar.parts[i].length

\* C28: while a bar is being built the running cut_position equals the
\* running consumed length; in every bar the cut positions strictly increase
\* in placement order, two placements overlap only when they are the two
\* members of an accepted pair, and then by exactly the shared length, and
\* every placement ends at or before the consumed length of its bar.
C28_PlacementGeometry ==
    /\ BarOpen => cut_position = current_length
    /\ BarOpen => current_length = ConsumedBy(pattern_parts)
    /\ \A bar \in Bars :
           /\ \A i \in 1..(Len(bar.parts) - 1) :
                  bar.parts[i].cut_position < bar.parts[i + 1].cut_position
           /\ \A i, j \in 1..Len(bar.parts) :
                  (i < j /\ EndOf(bar, i) > bar.parts[j].cut_position) =>
                      /\ j = i + 1
                      /\ bar.parts[j].shared > 0
                      /\ bar.parts[i].slope_info.complementary_pair
                      /\ bar.parts[j].slope_info.complementary_pair
                      /\ EndOf(bar, i) - bar.parts[j].cut_position = bar.parts[j].shared
           /\ \A i \in 1..Len(bar.parts) : EndOf(bar, i) <= ConsumedBy(bar.parts)

\* An emitted pattern holds an accepted pair that overlaps by its shared
\* length and, after it, a placement the fill loop added with a kerf.
C28_Witness ==
    \E k \in 1..Len(cutting_patterns) :
        LET pls == cutting_patterns[k].parts
        IN  /\ Len(pls) >= 3
            /\ pls[2].shared > 0
            /\ pls[1].cut_position + pls[1].length = pls[2].cut_position + pls[2].shared
            /\ pls[3].kerf > 0
            /\ pls[3].cut_position = pls[2].cut_position + pls[2].length

(* ------------------------------------------------------------------ *)
(* C29: progress of the main loop                                       *)
(* ------------------------------------------------------------------ *)

\* The end of an iteration that does not end the loop.
IterationEnds == pc = "close" /\ pc' = "loop"

\* The fill loop offers a candidate of the bar's stock to an empty bar.
OffersToEmptyBar ==
    /\ pc = "fill"
    /\ pattern_parts = <<>>
    /\ fk <= Len(remaining_parts_sorted)
    /\ InSeq(remaining_parts_sorted[fk], valid_parts_for_this_stock)
    /\ ~InSeq(remaining_parts_sorted[fk], parts_to_remove)

\* C29: every iteration of the main loop that does not end the loop leaves
\* the pool smaller, and a piece it took out is in an emitted pattern or in
\* the rejections; the first candidate offered to an empty bar is placed;
\* an emitted pattern is never empty.
C29_Progress ==
    [][ /\ IterationEnds =>
              /\ Len(remaining_parts') < Len(remaining_parts)
              /\ \E id \in Range(remaining_parts) \ Range(remaining_parts') :
                     \/ \E k \in 1..Len(cutting_patterns') :
                            \E i \in 1..Len(cutting_patterns'[k].parts) :
                                cutting_patterns'[k].parts[i].part = id
                     \/ \E r \in 1..Len(rejected_parts') :
                            rejected_parts'[r].product_id = id
        /\ OffersToEmptyBar =>
              /\ Len(pattern_parts') = 1
              /\ pattern_parts'[1].part = remaining_parts_sorted[fk]
              /\ pattern_parts'[1].kerf = 0
        /\ Len(cutting_patterns') > Len(cutting_patterns) =>
              cutting_patterns'[Len(cutting_patterns')].parts # <<>>
      ]_vars

\* An iteration has ended without a pattern and without ending the loop:
\* the pieces it took out of the pool are in the rejections.
C29_Witness ==
    /\ pc = "loop"
    /\ iteration_count >= 1
    /\ cutting_patterns = <<>>
    /\ \E r \in 1..Len(rejected_parts) :
           rejected_parts[r].reason.kind # "exceeds_longest_stock"

(* ------------------------------------------------------------------ *)
(* C30: the orderings and the fill loop agree on flushness              *)
(* ------------------------------------------------------------------ *)

\* The fill loop places a piece directly after a placement, and the can_share
\* of the look-ahead and of the orderings counts the boundary as flush for
\* the two pieces as they lie in the bar.
OrderingCountsFlush ==
    /\ pc = "fill"
    /\ Len(pattern_parts) > 0
    /\ Len(pattern_parts') = Len(pattern_parts) + 1
    /\ LET prev == pattern_parts[Len(pattern_parts)].slope_info
           new == pattern_parts'[Len(pattern_parts')].slope_info
       IN  CanShareUnsigned(prev.end_has_slope, prev.end_angle,
                            new.start_has_slope, new.start_angle)

\* C30: every boundary that the look-ahead simulation or the flush-priority
\* ordering counts as flush for two pieces in a given orientation is charged
\* zero kerf by the fill loop when it places the two pieces consecutively in
\* that orientation.
C30_OrderingAgreesWithFill ==
    [][OrderingCountsFlush => pattern_parts'[Len(pattern_parts')].kerf = 0]_vars

====
